---- MODULE Spec2Model ----
(***************************************************************************)
(* The JSON-RPC bridge of codex-desktop: AppState (state.rs) holds the     *)
(* AppServerProcess behind one RwLock; AppServerProcess (process.rs) owns   *)
(* the child, its stdin, the request counter and the pending-request map,  *)
(* and a reader task dispatches every line of the child's stdout.          *)
(*                                                                         *)
(* Option<T> is modelled as a set with at most one element: {} is None,    *)
(* {x} is Some(x).                                                         *)
(***************************************************************************)
EXTENDS Integers, Sequences, FiniteSets, TLC

\* ---------------------------------------------------------------- bounds
NumCallers == 2   \* concurrent command invocations
MaxId == 3        \* request ids allocated per subprocess instance
MaxEvents == 1    \* events emitted to the UI

\* Lines written to one subprocess instance: the handshake and one per id.
MaxLines == MaxId + 1

Callers == 1..NumCallers
Ids == 1..MaxId

\* ------------------------------------------------------------ data model
None == {}
Some(x) == {x}
Get(o) == CHOOSE x \in o : TRUE

\* Method names are sequences of tokens; "/" and "-" are tokens of their own.
MInitialize == <<"initialize">>
MInitialized == <<"initialized">>
MCall == <<"turn", "/", "start">>
MApproval == <<"approval", "/", "request">>
MTurnDone == <<"turn", "/", "completed">>
MTurnDoneHyphen == <<"turn", "-", "completed">>
MDisconnected == <<"app", "-", "server", "/", "disconnected">>

\* serde_json::Value as far as the bridge looks at it.
JsonNull == "null"
JsonObject == "object"
JsonArray == "array"
InboundResults == {"A"}
InboundError == [code |-> -32000, message |-> "failed"]

\* A decoded JsonRpcMessage; ok = FALSE is a line serde_json rejects.
Message(ok, i, m, r, e, p) ==
  [ok |-> ok, id |-> i, method |-> m, result |-> r, error |-> e, params |-> p]

Garbage == Message(FALSE, None, None, None, None, None)

\* The ids the subprocess gives its own requests: its numbering is independent
\* of the bridge's, so they collide with CallIds.
ServerRequestIds == {2}

InboundResponses ==
  { Message(TRUE, Some(i), None, r, e, None) :
      i \in Ids, r \in {None} \cup {Some(v) : v \in InboundResults},
      e \in {None, Some(InboundError)} }

\* Server requests: params an object, absent, or not an object; one carries
\* result and error fields as well.
InboundServerRequests ==
  { Message(TRUE, Some(i), Some(MApproval), None, None, p) :
      i \in ServerRequestIds, p \in {None, Some(JsonObject), Some(JsonArray)} }
  \cup { Message(TRUE, Some(i), Some(MApproval), Some("A"), Some(InboundError),
                 Some(JsonObject)) : i \in ServerRequestIds }

\* Notifications: two method names that differ in "/" against "-"; one
\* carries a result field as well.
InboundNotifications ==
  { Message(TRUE, None, Some(m), None, None, None) : m \in {MTurnDone, MTurnDoneHyphen} }
  \cup { Message(TRUE, None, Some(MTurnDone), Some("A"), None, None) }

\* Lines with neither id nor method.
InboundUnknown ==
  { Message(TRUE, None, None, r, None, None) : r \in {None, Some("A")} }

InboundLines ==
  InboundResponses \cup InboundServerRequests \cup InboundNotifications
    \cup InboundUnknown \cup {Garbage}

\* Outbound messages, as serialized by send_request / send_notification /
\* send_response.
JsonRpcRequest(i, m) == Message(TRUE, Some(i), Some(m), None, None, Some(JsonObject))
JsonRpcNotification(m) == Message(TRUE, None, Some(m), None, None, Some(JsonObject))
JsonRpcResponseMsg(i, r) == Message(TRUE, Some(i), None, Some(r), None, None)

\* Result<JsonValue>: Ok(val) or Err(Error::AppServer(..))
Ok(v) == [kind |-> "ok", val |-> v, code |-> 0, message |-> ""]
Err(k) == [kind |-> k, val |-> JsonNull, code |-> 0, message |-> ""]
RpcError(e) == [kind |-> "rpc_error", val |-> JsonNull, code |-> e.code, message |-> e.message]
NoResult == Err("none")

EmptyMap == [i \in {} |-> 0]

\* enum ApprovalDecision; only AcceptWithExecpolicyAmendment carries a value.
ApprovalDecision(variant, amendment) == [variant |-> variant, amendment |-> amendment]
NoDecision == ApprovalDecision("none", None)

\* What the UI may pass to respond_to_approval: a decision string and an
\* optional amendment.
DecisionStrings ==
  {"accept", "acceptForSession", "acceptWithExecpolicyAmendment", "decline",
   "cancel", "Accept", "approve"}
Amendments == {None, Some("amendment")}

\* The decisions the UI passes where the decision is not what is looked at:
\* one the match accepts and one it rejects.
UsualDecisionStrings == {"accept", "approve"}

Put(map, k, v) == [x \in DOMAIN map \cup {k} |-> IF x = k THEN v ELSE map[x]]
Remove(map, k) == [x \in DOMAIN map \ {k} |-> map[x]]

\* ------------------------------------------------------ session metadata

\* The commands on one session touch no row of another.
SessionIds == {"s1"}
ProjectIds == {"p1", "p2"}
FirstMessages == {"A", "B"}
Titles == {"T"}

Option(S) == {None} \cup {Some(x) : x \in S}

\* chrono::Utc::now().timestamp() where the time that passes plays no part.
Now == 1

\* SessionMetadata::new. Of struct SessionMetadata, title also stands for
\* status and tasks_json, which the commands treat like it; tags is the list
\* get_tags parses.
NewSessionMetadata(pid) ==
  [project_id |-> pid, title |-> None, tags |-> {}, is_favorite |-> FALSE,
   is_archived |-> FALSE, last_accessed_at |-> Now, first_message |-> None]

\* COALESCE(a, b)
Coalesce(a, b) == IF a # None THEN a ELSE b

\* An upsert that overwrites first_message like the other columns.
UpsertOverwrite(table, sid, m) == Put(table, sid, m)

\* INSERT .. ON CONFLICT(session_id) DO UPDATE SET title = excluded.title, ..,
\* first_message = COALESCE(session_metadata.first_message, excluded.first_message):
\* project_id is not among the columns set.
UpsertSessionMetadata(table, sid, m) ==
  IF sid \in DOMAIN table
    THEN Put(table, sid,
             [m EXCEPT !.project_id = table[sid].project_id,
                       !.first_message = Coalesce(table[sid].first_message, m.first_message)])
    ELSE Put(table, sid, m)

\* UPDATE session_metadata SET first_message = ?1
\* WHERE session_id = ?2 AND first_message IS NULL
UpdateSessionFirstMessage(table, sid, fm) ==
  IF sid \in DOMAIN table /\ table[sid].first_message = None
    THEN [table EXCEPT ![sid].first_message = Some(fm)]
    ELSE table

\* DELETE FROM session_metadata WHERE session_id = ?1
DeleteSessionMetadata(table, sid) == Remove(table, sid)

\* get_session: the session is looked for in get_sessions_for_project of
\* every project, which selects WHERE project_id = ?1 AND is_archived = 0.
GetSession(table, projs, sid) ==
  IF sid \in DOMAIN table /\ table[sid].project_id \in DOMAIN projs
       /\ ~table[sid].is_archived
    THEN Some(table[sid])
    ELSE None

\* update_session_metadata between get_session and the upsert: the existing
\* metadata, or a new one for project_id, with the parameters that are Some
\* applied and last_accessed_at set.
ModifiedMetadata(existing, pid, t, a, fm) ==
  LET metadata == IF existing # None THEN Get(existing)
                                     ELSE NewSessionMetadata(Get(pid))
  IN [metadata EXCEPT
        !.title = IF t # None THEN t ELSE @,
        !.is_archived = IF a # None THEN Get(a) ELSE @,
        !.first_message = IF fm # None /\ @ = None THEN fm ELSE @,
        !.last_accessed_at = Now]

\* ------------------------------------------------------------- projects

ProjectPaths == {"/a", "/b"}
DisplayNames == {"N"}
ProjectSettingsJson == {"{}"}
CommandPatterns == {"ls"}

\* Project::new
NewProject(path) ==
  [path |-> path, display_name |-> Some(path), settings_json |-> None,
   created_at |-> Now, last_opened_at |-> None]

\* The projects table after add_project for two directories.
TwoProjects == Put(Put(EmptyMap, "p1", NewProject("/a")), "p2", NewProject("/b"))

\* DELETE FROM projects WHERE id = ?1
DeleteProject(projs, pid) == Remove(projs, pid)

\* ON DELETE CASCADE of session_metadata.project_id, with foreign_keys = ON.
CascadeSessions(table, pid) ==
  [sid \in {x \in DOMAIN table : table[x].project_id # pid} |-> table[sid]]

\* ON DELETE CASCADE of command_allowlist.project_id.
CascadeAllowlist(allowlist, pid) == {e \in allowlist : e[1] # pid}

\* INSERT INTO projects fails on id TEXT PRIMARY KEY and on path .. UNIQUE.
InsertProjectFails(projs, pid, p) ==
  pid \in DOMAIN projs \/ \E x \in DOMAIN projs : projs[x].path = p.path

\* The database after two projects were added, a thread was started in each
\* and a command was allowed in each.
TwoSessions ==
  Put(Put(EmptyMap, "s1", NewSessionMetadata("p1")), "s2", NewSessionMetadata("p2"))

TwoAllowlists == {<<"p1", "ls">>, <<"p2", "ls">>}

\* ------------------------------------------------------- restore paths

MaxPathLen == 4

\* The characters validate_restore_path tells apart; "a" stands for any other.
PathChars == {"a", ".", "/", "\\", ":", "NUL"}

RelativePaths == UNION { [1..n -> PathChars] : n \in 0..MaxPathLen }

\* The canonical project directory: the root and one name.
ProjectPath == << <<"/">>, <<"p">> >>

\* Which entries under the project directory are symbolic links, as paths of
\* names relative to it.
SymlinkSets ==
  SUBSET { << <<"a">> >>, << <<"a">>, <<"a">> >>, << <<"a", "a">> >> }

ParentDir == <<".", ".">>
CurDir == <<".">>

RECURSIVE SplitAcc(_, _, _, _)
SplitAcc(s, seps, done, cur) ==
  IF s = <<>> THEN Append(done, cur)
  ELSE IF Head(s) \in seps
    THEN SplitAcc(Tail(s), seps, Append(done, cur), <<>>)
    ELSE SplitAcc(Tail(s), seps, done, Append(cur, Head(s)))

\* str::split on a set of separator characters.
Split(s, seps) == SplitAcc(s, seps, <<>>, <<>>)

Contains(s, ch) == \E k \in DOMAIN s : s[k] = ch

\* std::path::MAIN_SEPARATOR and the alternative one a Windows build accepts.
Separators(windows) == IF windows THEN {"/", "\\"} ELSE {"/"}

\* Path::components of a relative path: empty components and "." are left
\* out (a leading "." is CurDir, which normalize_path_components skips).
Components(p, windows) ==
  SelectSeq(Split(p, Separators(windows)), LAMBDA n : n # <<>> /\ n # CurDir)

Valid(path) == [ok |-> TRUE, err |-> "", absolute_path |-> path]
Invalid(e) == [ok |-> FALSE, err |-> e, absolute_path |-> <<>>]
NotValidated == [ok |-> FALSE, err |-> "not validated", absolute_path |-> <<>>]

RECURSIVE NormalizeAcc(_, _)
NormalizeAcc(comps, normalized) ==
  IF comps = <<>> THEN Valid(normalized)
  ELSE IF Head(comps) = ParentDir
    THEN IF Len(normalized) > 1
           THEN NormalizeAcc(Tail(comps), SubSeq(normalized, 1, Len(normalized) - 1))
           ELSE Invalid("ParentTraversal")
  ELSE IF Contains(Head(comps), "NUL")
    THEN Invalid("NullByte")
    ELSE NormalizeAcc(Tail(comps), Append(normalized, Head(comps)))

\* normalize_path_components(project_path.join(relative_path))
NormalizePathComponents(p, windows) == NormalizeAcc(Components(p, windows), ProjectPath)

\* Path::starts_with, by whole components.
StartsWith(path, base) ==
  Len(path) >= Len(base) /\ SubSeq(path, 1, Len(base)) = base

\* Path::strip_prefix(project_path)
StripPrefix(path) == SubSeq(path, Len(ProjectPath) + 1, Len(path))

\* A check that takes no entry for a symbolic link.
NoSymlinkCheck(target, symlinks) == Valid(target)

\* check_path_for_symlinks: every prefix of the relative part that exists is
\* looked at with symlink_metadata.
CheckPathForSymlinks(target, symlinks) ==
  IF ~StartsWith(target, ProjectPath) THEN Invalid("DirectoryEscape")
  ELSE IF \E k \in 1..Len(StripPrefix(target)) :
            SubSeq(StripPrefix(target), 1, k) \in symlinks
    THEN Invalid("SymbolicLink")
    ELSE Valid(target)

validate_restore_path(p, symlinks, windows) ==
  IF Contains(p, "NUL") THEN Invalid("NullByte")
  ELSE IF p = <<>> THEN Invalid("InvalidCharacters")
  ELSE IF p[1] = "/" \/ p[1] = "\\" \/ (Len(p) >= 2 /\ p[2] = ":")
    THEN Invalid("AbsolutePath")
  ELSE IF \E k \in DOMAIN Split(p, {"/", "\\"}) : Split(p, {"/", "\\"})[k] = ParentDir
    THEN Invalid("ParentTraversal")
  ELSE LET normalized == NormalizePathComponents(p, windows) IN
    IF ~normalized.ok THEN normalized
    ELSE IF ~StartsWith(normalized.absolute_path, ProjectPath)
      THEN Invalid("DirectoryEscape")
      ELSE CheckPathForSymlinks(normalized.absolute_path, symlinks)

Restore(p, symlinks, windows, result) ==
  [relative_path |-> p, symlinks |-> symlinks, windows |-> windows, result |-> result]

NoRestore == Restore(<<>>, {}, FALSE, NotValidated)

\* ---------------------------------------------------------- search_sessions

\* Text is a sequence of characters, so that a query can be a part of it.
\* str::to_lowercase
ToLowercase(s) == [k \in DOMAIN s |-> IF s[k] = "T" THEN "t" ELSE s[k]]

\* str::contains(&str)
ContainsStr(s, q) ==
  \E k \in 0..(Len(s) - Len(q)) : SubSeq(s, k + 1, k + Len(q)) = q

\* The points of one field: exact, prefix, contains.
FieldScore(field, query_lower, exact, prefix, contains) ==
  IF field = None THEN 0
  ELSE LET lower == ToLowercase(Get(field)) IN
         IF lower = query_lower THEN exact
         ELSE IF prefix > 0 /\ StartsWith(lower, query_lower) THEN prefix
         ELSE IF ContainsStr(lower, query_lower) THEN contains
         ELSE 0

\* The loop over session.get_tags().
RECURSIVE TagScore(_, _)
TagScore(tags, query_lower) ==
  IF tags = {} THEN 0
  ELSE LET tag == CHOOSE t \in tags : TRUE IN
         FieldScore(Some(tag), query_lower, 35, 0, 30)
           + TagScore(tags \ {tag}, query_lower)

\* calculate_relevance_score
calculate_relevance_score(id, session, query_lower) ==
  FieldScore(session.title, query_lower, 100, 80, 60)
    + FieldScore(session.first_message, query_lower, 50, 45, 40)
    + TagScore(session.tags, query_lower)
    + (IF ContainsStr(ToLowercase(id), query_lower) THEN 10 ELSE 0)
    + (IF session.is_favorite THEN 5 ELSE 0)

\* get_sessions_for_project over get_all_projects: the rows that are not
\* archived, of the projects that are stored.
AllSessions(table, projs) ==
  {sid \in DOMAIN table :
     table[sid].project_id \in DOMAIN projs /\ ~table[sid].is_archived}

\* The closure of filter(..) in search_sessions.
SearchFilter(table, sid, query_lower, tags_filter, favorites_only) ==
  /\ tags_filter # None => Get(tags_filter) \subseteq table[sid].tags
  /\ favorites_only = Some(TRUE) => table[sid].is_favorite
  /\ calculate_relevance_score(sid, table[sid], query_lower) > 0

\* last_accessed_at.unwrap_or(0)
UnwrapOr0(o) == IF o = None THEN 0 ELSE Get(o)

\* The comparator of sort_by: TRUE when a may stand before b.
SearchOrder(table, query_lower, a, b) ==
  LET sa == calculate_relevance_score(a, table[a], query_lower)
      sb == calculate_relevance_score(b, table[b], query_lower) IN
    \/ sa > sb
    \/ sa = sb /\ UnwrapOr0(table[a].last_accessed_at) >= UnwrapOr0(table[b].last_accessed_at)

\* The lists search_sessions can return: the sessions that pass the filter,
\* each once, in the order of the comparator. Where the comparator ties, the
\* order is that of the rows the queries returned, which SQLite leaves open
\* for rows of equal last_accessed_at.
SearchResults(table, projs, query, tags_filter, favorites_only) ==
  LET q == ToLowercase(query)
      kept == {sid \in AllSessions(table, projs) :
                 SearchFilter(table, sid, q, tags_filter, favorites_only)} IN
    {r \in [1..Cardinality(kept) -> kept] :
       /\ \A i, j \in DOMAIN r : i # j => r[i] # r[j]
       /\ \A i, j \in DOMAIN r : i < j => SearchOrder(table, q, r[i], r[j])}


VARIABLES
  server,            \* AppState.app_server: None or Some (a handshaken supervisor)
  lock,              \* holder of the RwLock write guard, 0 when free
  child,             \* the subprocess: "none" (never launched, or dropped), "running", "exited", "killed"
  request_counter,   \* AppServerProcess.request_counter
  pending_requests,  \* AppServerProcess.pending_requests: id -> oneshot sender
  stdin,             \* what was written to the child's stdin, in chunks
  reader,            \* the stdout reader task: "none", "running", "handling", "stopped"
  line,              \* the line handle_message is working on
  events,            \* what app_handle.emit delivered
  pc,                \* where each command invocation is
  op,                \* the command each caller runs
  id,                \* the CallId a caller allocated (send_request) or the request_id it answers
  rx,                \* each caller's oneshot receiver
  decision,          \* the ApprovalDecision respond_to_approval is sending
  timedOut,          \* ids of this instance whose send_request returned a timeout
  session_metadata,  \* the rows of table session_metadata, by session_id
  update_metadata,   \* the SessionMetadata each update_session_metadata has read and modified
  restore,           \* a relative path of a snapshot, the project's symlinks, and the verdict on it
  wire,              \* the lines the reader task took from stdout, where the order of dispatch is examined
  projects,          \* the rows of table projects, by id
  command_allowlist, \* the rows of table command_allowlist: <<project_id, command_pattern>>
  update_project,    \* the Project each update_project has read and modified, and how far it is
  search,            \* search_sessions: None, or the parameters and the ids it returned
  snapshots,         \* table snapshots: the rows, each with id, session_id, created_at
  clock,             \* chrono::Utc::now().timestamp(), in seconds
  created,           \* the snapshot the last create_snapshot returned; id 0 before the first
  git,               \* the project directory: whether it has .git, HEAD, the changes of the working tree, the stash
  reverted,          \* what the last revert_to_snapshot returned: None, or the snapshot id and Ok or Err
  revert             \* revert_file_backup_snapshot: the entries left, the links in the project, what was written and skipped, the result

procVars == <<child, request_counter, pending_requests, stdin, timedOut>>
readerVars == <<reader, line>>
callerVars == <<pc, op, id, rx, decision>>

bridgeVars == <<server, lock, procVars, readerVars, events, callerVars>>
dataVars == <<session_metadata, update_metadata, restore, wire, projects, command_allowlist, update_project, search, snapshots, clock, created, git, reverted, revert>>

vars == <<bridgeVars, dataVars>>

\* What the commands of one part of the program leave alone.
sessionFrame == <<bridgeVars, restore, wire, projects, command_allowlist, update_project, search, snapshots, clock, created, git, reverted, revert>>
restoreFrame == <<bridgeVars, session_metadata, update_metadata, wire, projects, command_allowlist, update_project, search, snapshots, clock, created, git, reverted, revert>>
projectFrame == <<bridgeVars, session_metadata, update_metadata, restore, wire, search, snapshots, clock, created, git, reverted, revert>>
searchFrame == <<bridgeVars, session_metadata, update_metadata, restore, wire, projects, command_allowlist, update_project, snapshots, clock, created, git, reverted, revert>>
snapshotFrame == <<bridgeVars, session_metadata, update_metadata, restore, wire, projects, command_allowlist, update_project, search, revert>>
revertFrame == <<bridgeVars, session_metadata, update_metadata, restore, wire, projects, command_allowlist, update_project, search, snapshots, clock, created, git, reverted>>
cascadeFrame == <<bridgeVars, update_metadata, restore, wire, search, snapshots, clock, created, git, reverted, revert>>
wireFrame == <<session_metadata, update_metadata, restore, projects, command_allowlist, update_project, search, snapshots, clock, created, git, reverted, revert>>

\* The commands: start_app_server, one that calls send_request (send_message,
\* interrupt_turn, ...), respond_to_approval.
Ops == {"start", "call", "respond", "stop"}

\* An empty table and no update_session_metadata running.
NoSessions ==
  /\ session_metadata = EmptyMap
  /\ update_metadata = [c \in Callers |-> None]

NoWire == wire = <<>>

\* No project was added and no update_project is running.
NoProjects ==
  /\ projects = EmptyMap
  /\ command_allowlist = {}
  /\ update_project = [c \in Callers |-> None]

NoSearch == search = None

NoSnapshots ==
  /\ snapshots = {}
  /\ clock = 0
  /\ created = [id |-> 0, session_id |-> "s1"]

\* A project directory that is no git repository, and nothing reverted.
NoRepo ==
  /\ git = [repo |-> FALSE, head |-> "none", worktree |-> "clean", stash |-> <<>>]
  /\ reverted = None

\* No revert of a file backup under way.
NoRevert ==
  revert = [files |-> {}, entries |-> {}, symlinks |-> {}, windows |-> FALSE, written |-> {}, skipped |-> {}, result |-> "none", failed |-> None]

\* A fresh database, no path to restore, nothing read.
NoData ==
  /\ NoSessions
  /\ restore = NoRestore
  /\ NoWire
  /\ NoProjects
  /\ NoSearch
  /\ NoSnapshots
  /\ NoRepo
  /\ NoRevert

\* AppState::new: no supervisor, no command running.
AppServerIdle ==
  /\ server = "None"
  /\ lock = 0
  /\ child = "none"
  /\ request_counter = 0
  /\ pending_requests = EmptyMap
  /\ stdin = <<>>
  /\ reader = "none"
  /\ line = None
  /\ events = <<>>
  /\ pc = [c \in Callers |-> "idle"]
  /\ op = [c \in Callers |-> "start"]
  /\ id = [c \in Callers |-> 0]
  /\ rx = [c \in Callers |-> [st |-> "none", res |-> NoResult]]
  /\ decision = [c \in Callers |-> NoDecision]
  /\ timedOut = {}

Init ==
  /\ AppServerIdle
  /\ NoData


\* ------------------------------------------------------- pure operators

\* A mapper that drops the separators instead of replacing them.
DropSeparators(m) == SelectSeq(m, LAMBDA t : t # "/")

\* method.replace('/', "-")
EventName(m) == [k \in DOMAIN m |-> IF m[k] = "/" THEN "-" ELSE m[k]]

Event(name, params, requestId) ==
  [name |-> name, params |-> params, requestId |-> requestId]

Disconnected == Event(<<"app", "-", "server", "-", "disconnected">>, JsonNull, None)

\* A match that takes every line with an id for a response.
HasId(m) == m.ok /\ m.id # None

\* The match of handle_message on (id, method, result, error).
IsResponse(m) == m.ok /\ m.id # None /\ m.method = None
IsServerRequest(m) == m.ok /\ m.id # None /\ m.method # None
IsNotification(m) == m.ok /\ m.id = None /\ m.method # None

\* The result field looked at before the error field.
ResultFirst(m) ==
  IF m.result # None
    THEN Ok(Get(m.result))
    ELSE IF m.error # None THEN RpcError(Get(m.error)) ELSE Ok(JsonNull)

\* The Result a response line carries.
ResponseResult(m) ==
  IF m.error # None
    THEN RpcError(Get(m.error))
    ELSE Ok(IF m.result # None THEN Get(m.result) ELSE JsonNull)

\* The oneshot sender made by call i of caller c.
Sender(c, i) == [caller |-> c, call |-> i]

\* Matching by arrival order: the oldest entry answers whatever id arrives.
RemoveOldest(map, i) ==
  IF DOMAIN map = {}
    THEN [found |-> None, map |-> map]
    ELSE LET k == CHOOSE x \in DOMAIN map : \A y \in DOMAIN map : x <= y
         IN [found |-> Some(map[k]), map |-> Remove(map, k)]

\* A lookup that leaves the entry in the map.
PeekPending(map, i) ==
  IF i \in DOMAIN map
    THEN [found |-> Some(map[i]), map |-> map]
    ELSE [found |-> None, map |-> map]

\* pending.remove(&id): the sender found and the map left.
RemovePending(map, i) ==
  IF i \in DOMAIN map
    THEN [found |-> Some(map[i]), map |-> Remove(map, i)]
    ELSE [found |-> None, map |-> map]

\* One channel per caller instead of one per call.
ReceiverOfCaller(c, i) == rx[c].st = "empty"

\* The receiver of the oneshot channel made for call i of caller c is alive
\* while that send_request has not returned.
ReceiverAlive(c, i) == id[c] = i /\ rx[c].st = "empty"

\* sender.send(result): the value reaches the receiver if it is alive and is
\* dropped otherwise.
OneshotSend(tx, r) ==
  IF ReceiverAlive(tx.caller, tx.call)
    THEN [rx EXCEPT ![tx.caller] = [st |-> "full", res |-> r]]
    ELSE rx

\* The event emitted for a server request: params with _requestId inserted
\* when params is an object (an absent params becomes an empty object).
ServerRequestEvent(m) ==
  LET params == IF m.params # None THEN Get(m.params) ELSE JsonObject
  IN Event(EventName(Get(m.method)), params,
           IF params = JsonObject THEN m.id ELSE None)

NotificationEvent(m) ==
  Event(EventName(Get(m.method)),
        IF m.params # None THEN Get(m.params) ELSE JsonNull, None)

\* The request written before its pending entry is registered.
WriteBeforeRegister ==
  <<"sr_alloc", "sr_write", "sr_write_rest", "sr_register", "sr_await">>

\* The statements of send_request, in program order.
SendRequestOrder ==
  <<"sr_alloc", "sr_register", "sr_write", "sr_write_rest", "sr_await">>

After(order, s) ==
  LET k == CHOOSE j \in DOMAIN order : order[j] = s
  IN order[k + 1]

Chunk(m, part) == [msg |-> m, part |-> part]

LinesBegun == (Len(stdin) + 1) \div 2

\* send_notification giving its message the next CallId.
NotifyWithId(c) ==
  CASE pc[c] \in {"sr_write", "sr_write_rest"} ->
         JsonRpcRequest(id[c], IF op[c] = "start" THEN MInitialize ELSE MCall)
    [] pc[c] \in {"sn_write", "sn_write_rest"} ->
         JsonRpcRequest(request_counter, MInitialized)
    [] OTHER -> JsonRpcResponseMsg(id[c], decision[c])

\* send_response serializing a request (id, method, params) instead.
RespondAsRequest(c) ==
  CASE pc[c] \in {"sr_write", "sr_write_rest"} ->
         JsonRpcRequest(id[c], IF op[c] = "start" THEN MInitialize ELSE MCall)
    [] pc[c] \in {"sn_write", "sn_write_rest"} ->
         JsonRpcNotification(MInitialized)
    [] OTHER -> JsonRpcRequest(id[c], MApproval)

\* The message a caller's write statement is sending.
Outbound(c) ==
  CASE pc[c] \in {"sr_write", "sr_write_rest"} ->
         JsonRpcRequest(id[c], IF op[c] = "start" THEN MInitialize ELSE MCall)
    [] pc[c] \in {"sn_write", "sn_write_rest"} ->
         JsonRpcNotification(MInitialized)
    [] OTHER -> JsonRpcResponseMsg(id[c], decision[c])


\* ------------------------------------------------------------- commands

NoReceiver == [st |-> "none", res |-> NoResult]

\* A gate that lets every caller in.
GateOpen(c) == TRUE

\* The write guard of AppState.app_server is free for caller c to take.
GateFree(c) == lock = 0

\* Caller c invokes a command, which gets the guard at
\* state.app_server.write().await.
Enters(c) == pc[c] = "idle" /\ GateFree(c)

\* The command returns: its guard and its receiver are dropped.
Return(c) ==
  /\ pc' = [pc EXCEPT ![c] = "idle"]
  /\ rx' = [rx EXCEPT ![c] = NoReceiver]
  /\ op' = [op EXCEPT ![c] = "start"]
  /\ id' = [id EXCEPT ![c] = 0]
  /\ decision' = [decision EXCEPT ![c] = NoDecision]
  /\ lock' = IF lock = c THEN 0 ELSE lock

\* A drop that leaves the child running.
LeakProcess ==
  UNCHANGED <<child, request_counter, pending_requests, stdin, timedOut, readerVars>>

\* spawn fails after the child was launched: the AppServerProcess is dropped,
\* which kills the child (kill_on_drop) and closes the shutdown channel. The
\* reader task, which shares the registry, goes on until it notices.
DropProcess ==
  /\ child' = "none"
  /\ UNCHANGED <<request_counter, pending_requests, stdin, timedOut, readerVars>>

\* An error return of send_request / send_notification / send_response, by
\* `?`: inside spawn it fails the spawn, elsewhere it is the command's result.
Fail(c, timeout) ==
  /\ Return(c)
  /\ IF op[c] = "start"
       THEN DropProcess
       ELSE /\ timedOut' = IF timeout THEN timedOut \cup {id[c]} ELSE timedOut
            /\ UNCHANGED <<child, request_counter, pending_requests, stdin,
                           readerVars>>

\* server.as_mut() is Some: a supervisor that completed its handshake is stored.
HasServer == server = "Some"

\* The request ids the UI has been shown in events.
ShownRequestIds == UNION { events[k].requestId : k \in DOMAIN events }

\* The installation find_codex_binary looks at: whether `which codex` finds
\* it, whether the home directory is known, and which of common_paths exist
\* (1, 2 under the home directory; 3, 4 absolute).
CommonPaths == <<"~/.cargo/bin/codex", "~/.local/bin/codex",
                 "/usr/local/bin/codex", "/opt/homebrew/bin/codex">>
Envs ==
  { [which |-> w, home |-> h, exists |-> e] :
      w \in BOOLEAN, h \in BOOLEAN, e \in SUBSET DOMAIN CommonPaths }
    \ { env \in [which : BOOLEAN, home : {FALSE}, exists : SUBSET DOMAIN CommonPaths] :
          env.exists \cap {1, 2} # {} }

ErrNotFound == "Codex CLI not found. Please install it first."
ErrNoHome == "Cannot find home directory"

\* find_codex_binary
FindCodexBinary(env) ==
  IF env.which
    THEN [ok |-> TRUE, path |-> "codex", err |-> ""]
    ELSE IF ~env.home
      THEN [ok |-> FALSE, path |-> "", err |-> ErrNoHome]
      ELSE IF env.exists # {}
        THEN LET k == CHOOSE j \in env.exists : \A x \in env.exists : j <= x
             IN [ok |-> TRUE, path |-> CommonPaths[k], err |-> ""]
        ELSE [ok |-> FALSE, path |-> "", err |-> ErrNotFound]

\* spawn returns the error of find_codex_binary: nothing was launched.
ResolveFails(c, env, err) ==
  /\ Enters(c)
  /\ server = "None"
  /\ ~FindCodexBinary(env).ok
  /\ FindCodexBinary(env).err = err
  /\ Return(c)
  /\ UNCHANGED <<server, procVars, readerVars, events>>
  /\ UNCHANGED dataVars

BinaryNotFound(c, env) == ResolveFails(c, env, ErrNotFound)
NoHomeDirectory(c, env) == ResolveFails(c, env, ErrNoHome)

\* A start that clears the state when it finds a supervisor stored.
StartForgets(c) ==
  /\ Enters(c)
  /\ server = "Some"
  /\ server' = "None"
  /\ Return(c)
  /\ UNCHANGED <<procVars, readerVars, events>>
  /\ UNCHANGED dataVars

\* start_app_server with a supervisor already stored: Ok(()).
StartAlreadyStored(c) ==
  /\ Enters(c)
  /\ server = "Some"
  /\ Return(c)
  /\ UNCHANGED <<server, procVars, readerVars, events>>
  /\ UNCHANGED dataVars

\* AppServerProcess::spawn: the binary cannot be launched, or its pipes cannot
\* be taken.
SpawnFails(c) ==
  /\ Enters(c)
  /\ server = "None"
  /\ Return(c)
  /\ UNCHANGED <<server, procVars, readerVars, events>>
  /\ UNCHANGED dataVars

\* AppServerProcess::spawn up to the call of initialize. The reader task of
\* an instance dropped before has ended by now.
Spawn(c) ==
  /\ Enters(c)
  /\ server = "None"
  /\ reader \in {"none", "stopped"}
  /\ lock' = c
  /\ child' = "running"
  /\ reader' = "running"
  /\ line' = None
  /\ request_counter' = 1
  /\ pending_requests' = EmptyMap
  /\ stdin' = <<>>
  /\ timedOut' = {}
  /\ op' = [op EXCEPT ![c] = "start"]
  /\ pc' = [pc EXCEPT ![c] = SendRequestOrder[1]]
  /\ UNCHANGED <<server, events, id, rx, decision>>
  /\ UNCHANGED dataVars

\* start_app_server where find_codex_binary resolves the binary.
Launch(c, env) == Enters(c) /\ FindCodexBinary(env).ok /\ Spawn(c)

\* stop_app_server with nothing stored: Ok(()).
StopNothing(c) ==
  /\ Enters(c)
  /\ server = "None"
  /\ Return(c)
  /\ UNCHANGED <<server, procVars, readerVars, events>>
  /\ UNCHANGED dataVars

\* A stop that shuts the supervisor down and leaves it stored.
StopWithoutTake(c) ==
  /\ Enters(c)
  /\ server = "Some"
  /\ lock' = c
  /\ op' = [op EXCEPT ![c] = "stop"]
  /\ pc' = [pc EXCEPT ![c] = "sh_signal"]
  /\ UNCHANGED <<server, procVars, readerVars, events, id, rx, decision>>
  /\ UNCHANGED dataVars

\* stop_app_server takes the supervisor out of the state and calls shutdown.
StopBegin(c) ==
  /\ Enters(c)
  /\ server = "Some"
  /\ server' = "None"
  /\ lock' = c
  /\ op' = [op EXCEPT ![c] = "stop"]
  /\ pc' = [pc EXCEPT ![c] = "sh_signal"]
  /\ UNCHANGED <<procVars, readerVars, events, id, rx, decision>>
  /\ UNCHANGED dataVars

\* The statements of shutdown, in program order.
ShutdownOrder == <<"sh_signal", "sh_close", "sh_wait", "sh_return">>

\* shutdown_tx.take() and tx.send(()): the signal is in the channel of the
\* reader task; then stdin.shutdown() closes the input of the subprocess.
ShutdownStep(c) ==
  /\ pc[c] \in {"sh_signal", "sh_close"}
  /\ pc' = [pc EXCEPT ![c] = After(ShutdownOrder, pc[c])]
  /\ UNCHANGED <<server, lock, procVars, readerVars, events, op, id, rx, decision>>
  /\ UNCHANGED dataVars

\* The select! of shutdown: child.wait() returns the status of a child that
\* has exited.
ShutdownExited(c) ==
  /\ pc[c] = "sh_wait"
  /\ child = "exited"
  /\ pc' = [pc EXCEPT ![c] = After(ShutdownOrder, "sh_wait")]
  /\ UNCHANGED <<server, lock, procVars, readerVars, events, op, id, rx, decision>>
  /\ UNCHANGED dataVars

\* A grace period after which shutdown returns without killing.
GiveUpWaiting(c) ==
  /\ pc[c] = "sh_wait"
  /\ child = "running"
  /\ pc' = [pc EXCEPT ![c] = After(ShutdownOrder, "sh_wait")]
  /\ UNCHANGED <<server, lock, procVars, readerVars, events, op, id, rx, decision>>
  /\ UNCHANGED dataVars

\* The select! of shutdown: the 2 s sleep ends with the child still running,
\* and child.kill().await kills and reaps it.
ShutdownKill(c) ==
  /\ pc[c] = "sh_wait"
  /\ child = "running"
  /\ child' = "killed"
  /\ pc' = [pc EXCEPT ![c] = After(ShutdownOrder, "sh_wait")]
  /\ UNCHANGED <<server, lock, request_counter, pending_requests, stdin, timedOut,
                 readerVars, events, op, id, rx, decision>>
  /\ UNCHANGED dataVars

\* The value shutdown returns after the child ended in the way `how`: Ok(())
\* in both branches of the select!.
ShutdownResult(how) == Ok(JsonNull)

\* shutdown returns Ok(()); stop_app_server drops the supervisor and returns.
StopEnd(c) ==
  /\ pc[c] = "sh_return"
  /\ Return(c)
  /\ DropProcess
  /\ UNCHANGED <<server, events>>
  /\ UNCHANGED dataVars

\* A command that needs the supervisor finds none stored: "App server not
\* running".
NotRunning(c) ==
  /\ Enters(c)
  /\ ~HasServer
  /\ Return(c)
  /\ UNCHANGED <<server, procVars, readerVars, events>>
  /\ UNCHANGED dataVars

\* server.as_mut() succeeded: the command calls send_request.
BeginCall(c) ==
  /\ Enters(c)
  /\ HasServer
  /\ LinesBegun < MaxLines
  /\ request_counter <= MaxId
  /\ lock' = c
  /\ op' = [op EXCEPT ![c] = "call"]
  /\ pc' = [pc EXCEPT ![c] = SendRequestOrder[1]]
  /\ UNCHANGED <<server, procVars, readerVars, events, id, rx, decision>>
  /\ UNCHANGED dataVars

\* A match that lets every decision string through.
AcceptAnyDecision(d, a) ==
  [ok |-> TRUE, value |-> ApprovalDecision(d, a), err |-> ""]

\* respond_to_approval: the match on decision.as_str().
ParseDecision(d, a) ==
  CASE d \in {"accept", "acceptForSession", "decline", "cancel"} ->
         [ok |-> TRUE, value |-> ApprovalDecision(d, None), err |-> ""]
    [] d = "acceptWithExecpolicyAmendment" ->
         IF a = None
           THEN [ok |-> FALSE, value |-> NoDecision,
                 err |-> "Missing execpolicy amendment"]
           ELSE [ok |-> TRUE, value |-> ApprovalDecision(d, a), err |-> ""]
    [] OTHER -> [ok |-> FALSE, value |-> NoDecision, err |-> "Invalid decision"]

\* respond_to_approval returns the error of the match, before it asks for the
\* guard.
RespondInvalid(c, d, a) ==
  /\ pc[c] = "idle"
  /\ ~ParseDecision(d, a).ok
  /\ UNCHANGED vars

\* respond_to_approval calls send_response(request_id, ..).
BeginRespond(c, i, d, a) ==
  /\ Enters(c)
  /\ ParseDecision(d, a).ok
  /\ HasServer
  /\ LinesBegun < MaxLines
  /\ i \in ShownRequestIds
  /\ lock' = c
  /\ op' = [op EXCEPT ![c] = "respond"]
  /\ id' = [id EXCEPT ![c] = i]
  /\ decision' = [decision EXCEPT ![c] = ParseDecision(d, a).value]
  /\ pc' = [pc EXCEPT ![c] = "sp_write"]
  /\ UNCHANGED <<server, procVars, readerVars, events, rx>>
  /\ UNCHANGED dataVars

\* ---------------------------------------------------------- send_request

\* A counter that is read and not advanced.
FetchOnly(n) == n

\* request_counter.fetch_add(1): the counter's next value.
FetchAdd(n) == n + 1

SrAlloc(c) ==
  /\ pc[c] = "sr_alloc"
  /\ id' = [id EXCEPT ![c] = request_counter]
  /\ request_counter' = FetchAdd(request_counter)
  /\ pc' = [pc EXCEPT ![c] = After(SendRequestOrder, "sr_alloc")]
  /\ UNCHANGED <<server, lock, child, pending_requests, stdin, timedOut,
                 readerVars, events, op, rx, decision>>
  /\ UNCHANGED dataVars

\* oneshot::channel() and pending.insert(id, tx)
SrRegister(c) ==
  /\ pc[c] = "sr_register"
  /\ rx' = [rx EXCEPT ![c] = [st |-> "empty", res |-> NoResult]]
  /\ pending_requests' = Put(pending_requests, id[c], Sender(c, id[c]))
  /\ pc' = [pc EXCEPT ![c] = After(SendRequestOrder, "sr_register")]
  /\ UNCHANGED <<server, lock, child, request_counter, stdin, timedOut,
                 readerVars, events, op, id, decision>>
  /\ UNCHANGED dataVars

\* stdin.write_all(json): the first part of the line reaches the pipe.
Write(c) ==
  /\ pc[c] \in {"sr_write", "sn_write", "sp_write"}
  /\ child = "running"
  /\ stdin' = Append(stdin, Chunk(Outbound(c), 1))
  /\ pc' = [pc EXCEPT ![c] =
       CASE pc[c] = "sr_write" -> After(SendRequestOrder, "sr_write")
         [] pc[c] = "sn_write" -> "sn_write_rest"
         [] OTHER -> "sp_write_rest"]
  /\ UNCHANGED <<server, lock, child, request_counter, pending_requests, timedOut,
                 readerVars, events, op, id, rx, decision>>
  /\ UNCHANGED dataVars

\* The rest of the line, up to its newline, reaches the pipe; stdin.flush().
SrWriteRest(c) ==
  /\ pc[c] = "sr_write_rest"
  /\ child = "running"
  /\ stdin' = Append(stdin, Chunk(Outbound(c), 2))
  /\ pc' = [pc EXCEPT ![c] = After(SendRequestOrder, "sr_write_rest")]
  /\ UNCHANGED <<server, lock, child, request_counter, pending_requests, timedOut,
                 readerVars, events, op, id, rx, decision>>
  /\ UNCHANGED dataVars

\* The same in send_notification, for the initialized notification:
\* initialize and spawn return Ok and start_app_server stores the supervisor.
FinishStart(c) ==
  /\ pc[c] = "sn_write_rest"
  /\ child = "running"
  /\ stdin' = Append(stdin, Chunk(Outbound(c), 2))
  /\ server' = "Some"
  /\ Return(c)
  /\ UNCHANGED <<child, request_counter, pending_requests, timedOut, readerVars,
                 events>>
  /\ UNCHANGED dataVars

\* The same in send_response, which returns Ok(()).
SpWriteRest(c) ==
  /\ pc[c] = "sp_write_rest"
  /\ child = "running"
  /\ stdin' = Append(stdin, Chunk(Outbound(c), 2))
  /\ Return(c)
  /\ UNCHANGED <<server, child, request_counter, pending_requests, timedOut,
                 readerVars, events>>
  /\ UNCHANGED dataVars

\* write_all or flush returns an error (the child has gone): the `?` returns
\* "Failed to write to stdin" / "Failed to flush stdin".
WriteFails(c) ==
  /\ pc[c] \in {"sr_write", "sn_write", "sp_write", "sr_write_rest",
                "sn_write_rest", "sp_write_rest"}
  /\ child = "exited"
  /\ Fail(c, FALSE)
  /\ UNCHANGED <<server, events>>
  /\ UNCHANGED dataVars

\* timeout(30 s, rx) yields the value the reader task sent and the command
\* returns it; an error response to initialize fails the handshake.
SrReceive(c) ==
  /\ pc[c] = "sr_await"
  /\ rx[c].st = "full"
  /\ op[c] # "start" \/ rx[c].res.kind # "ok"
  /\ Fail(c, FALSE)
  /\ UNCHANGED <<server, events>>
  /\ UNCHANGED dataVars

\* An initialize that goes on after any response, an error response too.
ProceedOnAnyResponse(c) ==
  /\ pc[c] = "sr_await"
  /\ rx[c].st = "full"
  /\ op[c] = "start"
  /\ pc' = [pc EXCEPT ![c] = "sn_write"]
  /\ rx' = [rx EXCEPT ![c] = NoReceiver]
  /\ UNCHANGED <<server, lock, procVars, readerVars, events, op, id, decision>>
  /\ UNCHANGED dataVars

\* initialize got its response: send the initialized notification next.
SrReceiveInitialize(c) ==
  /\ pc[c] = "sr_await"
  /\ rx[c].st = "full"
  /\ op[c] = "start" /\ rx[c].res.kind = "ok"
  /\ pc' = [pc EXCEPT ![c] = "sn_write"]
  /\ rx' = [rx EXCEPT ![c] = NoReceiver]
  /\ UNCHANGED <<server, lock, procVars, readerVars, events, op, id, decision>>
  /\ UNCHANGED dataVars

\* A wait for the response with no timer.
NeverTimesOut(c) ==
  /\ pc[c] = "sr_await"
  /\ FALSE
  /\ UNCHANGED vars

\* The 30 s elapse with nothing received: "Request timeout".
SrTimeout(c) ==
  /\ pc[c] = "sr_await"
  /\ rx[c].st # "full"
  /\ Fail(c, TRUE)
  /\ UNCHANGED <<server, events>>
  /\ UNCHANGED dataVars

\* ----------------------------------------------------------- reader task

\* A handle_message that puts the event of a line before those of the lines
\* that came earlier.
NewestFirst(m) ==
  CASE m.ok /\ m.method # None ->
         /\ events' = <<IF m.id # None THEN ServerRequestEvent(m)
                                       ELSE NotificationEvent(m)>> \o events
         /\ UNCHANGED <<pending_requests, rx>>
    [] OTHER -> UNCHANGED <<pending_requests, rx, events>>

\* handle_message: what it does to the registry, the receivers and the events.
HandleMessage(m) ==
  CASE IsResponse(m) ->
         LET r == RemovePending(pending_requests, Get(m.id))
         IN /\ pending_requests' = r.map
            /\ rx' = IF r.found # None
                       THEN OneshotSend(Get(r.found), ResponseResult(m))
                       ELSE rx
            /\ events' = events
    [] IsServerRequest(m) ->
         /\ events' = Append(events, ServerRequestEvent(m))
         /\ UNCHANGED <<pending_requests, rx>>
    [] IsNotification(m) ->
         /\ events' = Append(events, NotificationEvent(m))
         /\ UNCHANGED <<pending_requests, rx>>
    [] OTHER -> UNCHANGED <<pending_requests, rx, events>>

\* lines.next_line() yields a line of the child's stdout. A response carries
\* an id that was issued or the next one, which was never issued.
ReaderNextLine(l) ==
  /\ reader = "running"
  /\ l.method # None => Len(events) < MaxEvents
  /\ IsResponse(l) => Get(l.id) <= request_counter
  /\ reader' = "handling"
  /\ line' = Some(l)
  /\ UNCHANGED <<server, lock, procVars, events, callerVars>>
  /\ UNCHANGED dataVars

\* A reader task that ends on a line it cannot decode.
StopOnUndecodable(m) == IF m.ok THEN "running" ELSE "stopped"

\* handle_message returns (), also by its early return on a line that does not
\* decode, and the loop goes round.
LoopAfter(m) == "running"

ReaderHandle ==
  /\ reader = "handling"
  /\ HandleMessage(Get(line))
  /\ reader' = LoopAfter(Get(line))
  /\ line' = None
  /\ UNCHANGED <<server, lock, child, request_counter, stdin, timedOut,
                 pc, op, id, decision>>
  /\ UNCHANGED dataVars

\* An end of stream after which the loop goes round again.
EofKeepsReading ==
  /\ reader = "running"
  /\ child \in {"exited", "killed", "none"}
  /\ Len(events) < MaxEvents
  /\ events' = Append(events, Disconnected)
  /\ reader' = "running"
  /\ UNCHANGED <<server, lock, procVars, line, callerVars>>
  /\ UNCHANGED dataVars

\* Ok(None): end of stream; the disconnected event is emitted and the loop ends.
ReaderEof ==
  /\ reader = "running"
  /\ child \in {"exited", "killed", "none"}
  /\ Len(events) < MaxEvents
  /\ events' = Append(events, Disconnected)
  /\ reader' = "stopped"
  /\ UNCHANGED <<server, lock, procVars, line, callerVars>>
  /\ UNCHANGED dataVars

\* Err(e): a read error ends the loop.
ReaderReadError ==
  /\ reader = "running"
  /\ reader' = "stopped"
  /\ UNCHANGED <<server, lock, procVars, line, events, callerVars>>
  /\ UNCHANGED dataVars

\* shutdown_rx.recv() returns: shutdown sent the signal, or the supervisor was
\* dropped, which closed the channel.
ShutdownSignalled ==
  child = "none" \/ \E c \in Callers : pc[c] \in {"sh_close", "sh_wait", "sh_return"}

\* A reader task that looks at the shutdown channel only when its read has
\* come to the end of the stream.
ShutdownOnlyAtEof ==
  /\ reader = "running"
  /\ ShutdownSignalled
  /\ child # "running"
  /\ reader' = "stopped"
  /\ UNCHANGED <<server, lock, procVars, line, events, callerVars>>
  /\ UNCHANGED dataVars

ReaderShutdown ==
  /\ reader = "running"
  /\ ShutdownSignalled
  /\ reader' = "stopped"
  /\ UNCHANGED <<server, lock, procVars, line, events, callerVars>>
  /\ UNCHANGED dataVars

\* The subprocess exits (or closes its pipes) on its own.
ChildExit ==
  /\ child = "running"
  /\ child' = "exited"
  /\ UNCHANGED <<server, lock, request_counter, pending_requests, stdin, timedOut,
                 readerVars, events, callerVars>>
  /\ UNCHANGED dataVars

Next ==
  \/ \E c \in Callers : StartAlreadyStored(c)
  \/ \E c \in Callers, env \in Envs : BinaryNotFound(c, env)
  \/ \E c \in Callers, env \in Envs : NoHomeDirectory(c, env)
  \/ \E c \in Callers : SpawnFails(c)
  \/ \E c \in Callers, env \in Envs : Launch(c, env)
  \/ \E c \in Callers : StopNothing(c)
  \/ \E c \in Callers : StopBegin(c)
  \/ \E c \in Callers : ShutdownStep(c)
  \/ \E c \in Callers : ShutdownExited(c)
  \/ \E c \in Callers : ShutdownKill(c)
  \/ \E c \in Callers : StopEnd(c)
  \/ \E c \in Callers : NotRunning(c)
  \/ \E c \in Callers : BeginCall(c)
  \/ \E c \in Callers, d \in UsualDecisionStrings : RespondInvalid(c, d, None)
  \/ \E c \in Callers, i \in Ids, d \in UsualDecisionStrings :
       BeginRespond(c, i, d, None)
  \/ \E c \in Callers : SrAlloc(c)
  \/ \E c \in Callers : SrRegister(c)
  \/ \E c \in Callers : Write(c)
  \/ \E c \in Callers : SrWriteRest(c)
  \/ \E c \in Callers : FinishStart(c)
  \/ \E c \in Callers : SpWriteRest(c)
  \/ \E c \in Callers : WriteFails(c)
  \/ \E c \in Callers : SrReceive(c)
  \/ \E c \in Callers : SrReceiveInitialize(c)
  \/ \E c \in Callers : SrTimeout(c)
  \/ \E l \in InboundLines : ReaderNextLine(l)
  \/ ReaderHandle
  \/ ReaderEof
  \/ ReaderReadError
  \/ ReaderShutdown
  \/ ChildExit

Spec == Init /\ [][Next]_vars

\* tokio::select! polls its ready branches in random order, so the reader task
\* takes the shutdown branch once the channel is closed or signalled, and a
\* handle_message that was begun returns.
LiveSpec == Spec /\ SF_vars(ReaderShutdown) /\ WF_vars(ReaderHandle)

\* The statements of a command that is inside send_request, send_notification
\* or send_response.
CallerStep(c) ==
  \/ SrAlloc(c) \/ SrRegister(c)
  \/ Write(c) \/ SrWriteRest(c) \/ FinishStart(c) \/ SpWriteRest(c) \/ WriteFails(c)
  \/ SrReceive(c) \/ SrReceiveInitialize(c) \/ SrTimeout(c)

\* The runtime polls the future of every command: a write to the pipe
\* completes or fails, a value in the receiver wakes the caller, and the
\* timer of the timeout fires.
CallSpec == Spec /\ \A c \in Callers : WF_vars(CallerStep(c))

\* ------------------------------------------- respond_to_approval in detail

\* The state right after start_app_server returned Ok: the handshake lines are
\* on stdin, nothing is registered, no event was emitted.
AppServerReady ==
  /\ server = "Some"
  /\ lock = 0
  /\ child = "running"
  /\ request_counter = 2
  /\ pending_requests = EmptyMap
  /\ stdin = <<Chunk(JsonRpcRequest(1, MInitialize), 1),
               Chunk(JsonRpcRequest(1, MInitialize), 2),
               Chunk(JsonRpcNotification(MInitialized), 1),
               Chunk(JsonRpcNotification(MInitialized), 2)>>
  /\ reader = "running"
  /\ line = None
  /\ events = <<>>
  /\ pc = [c \in Callers |-> "idle"]
  /\ op = [c \in Callers |-> "start"]
  /\ id = [c \in Callers |-> 0]
  /\ rx = [c \in Callers |-> NoReceiver]
  /\ decision = [c \in Callers |-> NoDecision]
  /\ timedOut = {}

Ready ==
  /\ AppServerReady
  /\ NoData

\* The subprocess asks for approvals and the UI answers with every decision
\* string and amendment.
ApprovalNext ==
  \/ \E l \in InboundServerRequests : ReaderNextLine(l)
  \/ ReaderHandle
  \/ \E c \in Callers, d \in DecisionStrings, a \in Amendments : RespondInvalid(c, d, a)
  \/ \E c \in Callers, i \in Ids, d \in DecisionStrings, a \in Amendments :
       BeginRespond(c, i, d, a)
  \/ \E c \in Callers : Write(c)
  \/ \E c \in Callers : SpWriteRest(c)
  \/ \E c \in Callers : WriteFails(c)
  \/ ChildExit

ApprovalSpec == Ready /\ [][ApprovalNext]_vars

\* ------------------------------------------ method names through the mapper

MaxMethodLen == 3
MethodTokens == {"turn", "completed", "/", "-"}

\* Every method name of up to MaxMethodLen tokens.
MethodNames == UNION { [1..n -> MethodTokens] : n \in 1..MaxMethodLen }

\* The lines with a method: a server request or a notification.
MethodLines ==
  { Message(TRUE, i, Some(m), None, None, None) :
      i \in {None} \cup {Some(k) : k \in ServerRequestIds}, m \in MethodNames }

\* The reader task handles lines carrying any method name.
MapperNext ==
  \/ \E l \in MethodLines : ReaderNextLine(l)
  \/ ReaderHandle

MapperSpec == Ready /\ [][MapperNext]_vars


\* ------------------------------------------------------ order of dispatch

MaxWire == 3      \* lines read where the order of dispatch is examined

\* A server request with an object and one with an array as params, two
\* notifications, a response to the first call after the handshake, a line
\* with neither id nor method, and a line that does not decode.
DispatchLines ==
  { Message(TRUE, Some(2), Some(MApproval), None, None, Some(JsonObject)),
    Message(TRUE, Some(2), Some(MApproval), None, None, Some(JsonArray)),
    Message(TRUE, None, Some(MTurnDone), None, None, None),
    Message(TRUE, None, Some(MDisconnected), None, None, None),
    Message(TRUE, Some(2), None, Some("A"), None, None),
    Message(TRUE, None, None, Some("A"), None, None),
    Garbage }

\* lines.next_line() yields a line, which is recorded as the next on the wire.
ReadLine(l) ==
  /\ reader = "running"
  /\ Len(wire) < MaxWire
  /\ reader' = "handling"
  /\ line' = Some(l)
  /\ wire' = Append(wire, l)
  /\ UNCHANGED <<server, lock, procVars, events, callerVars>>
  /\ UNCHANGED wireFrame

DispatchNext ==
  \/ \E l \in DispatchLines : ReadLine(l)
  \/ ReaderHandle
  \/ \E c \in Callers : BeginCall(c)
  \/ \E c \in Callers : SrAlloc(c)
  \/ \E c \in Callers : SrRegister(c)
  \/ \E c \in Callers : Write(c)
  \/ \E c \in Callers : SrWriteRest(c)
  \/ \E c \in Callers : SrReceive(c)
  \/ \E c \in Callers : SrTimeout(c)

DispatchSpec == Ready /\ [][DispatchNext]_vars

\* ------------------------------------------- commands on session metadata

\* The INSERT of an upsert for a session without a row fails on the foreign
\* key when the project is not stored.
UpsertFails(sid, m) ==
  sid \notin DOMAIN session_metadata /\ m.project_id \notin DOMAIN projects

\* start_thread after the thread/start response: the metadata of the new
\* thread is upserted.
StartThread(sid, pid) ==
  /\ session_metadata' =
       IF UpsertFails(sid, NewSessionMetadata(pid))
         THEN session_metadata
         ELSE UpsertSessionMetadata(session_metadata, sid, NewSessionMetadata(pid))
  /\ UNCHANGED <<update_metadata, sessionFrame>>

\* set_session_first_message
SetSessionFirstMessage(sid, fm) ==
  /\ session_metadata' = UpdateSessionFirstMessage(session_metadata, sid, fm)
  /\ UNCHANGED <<update_metadata, sessionFrame>>

\* update_session_metadata finds no session and has no project_id: an error.
UpdateSessionMetadataFails(c, sid) ==
  /\ update_metadata[c] = None
  /\ GetSession(session_metadata, projects, sid) = None
  /\ UNCHANGED vars

\* update_session_metadata up to the upsert: get_session, and the parameters
\* applied to what it returned. The row as it is stored before the call is
\* kept next to the parameters.
UpdateSessionMetadataRead(c, sid, pid, t, a, fm) ==
  /\ update_metadata[c] = None
  /\ GetSession(session_metadata, projects, sid) # None \/ pid # None
  /\ update_metadata' =
       [update_metadata EXCEPT ![c] =
          Some([session_id |-> sid,
                title |-> t, is_archived |-> a, first_message |-> fm,
                before |-> IF sid \in DOMAIN session_metadata
                             THEN Some(session_metadata[sid]) ELSE None,
                metadata |-> ModifiedMetadata(
                               GetSession(session_metadata, projects, sid),
                               pid, t, a, fm)])]
  /\ UNCHANGED <<session_metadata, sessionFrame>>

\* update_session_metadata: the upsert of the modified metadata.
UpdateSessionMetadataWrite(c) ==
  /\ update_metadata[c] # None
  /\ session_metadata' =
       IF UpsertFails(Get(update_metadata[c]).session_id,
                      Get(update_metadata[c]).metadata)
         THEN session_metadata
         ELSE UpsertSessionMetadata(session_metadata,
                                    Get(update_metadata[c]).session_id,
                                    Get(update_metadata[c]).metadata)
  /\ update_metadata' = [update_metadata EXCEPT ![c] = None]
  /\ UNCHANGED sessionFrame

\* delete_session
DeleteSession(sid) ==
  /\ sid \in DOMAIN session_metadata
  /\ session_metadata' = DeleteSessionMetadata(session_metadata, sid)
  /\ UNCHANGED <<update_metadata, sessionFrame>>

SessionNext ==
  \/ \E sid \in SessionIds : StartThread(sid, "p1")
  \/ \E sid \in SessionIds, fm \in FirstMessages : SetSessionFirstMessage(sid, fm)
  \/ \E c \in Callers, sid \in SessionIds : UpdateSessionMetadataFails(c, sid)
  \/ \E c \in Callers, sid \in SessionIds, pid \in {None, Some("p1")},
        t \in Option(Titles), a \in {None, Some(TRUE)}, fm \in Option(FirstMessages) :
       UpdateSessionMetadataRead(c, sid, pid, t, a, fm)
  \/ \E c \in Callers : UpdateSessionMetadataWrite(c)
  \/ \E sid \in SessionIds : DeleteSession(sid)

\* A fresh database to which the projects were added.
SessionInit ==
  /\ NoRevert
  /\ NoRepo
  /\ NoSnapshots
  /\ NoSearch
  /\ AppServerIdle
  /\ NoSessions
  /\ restore = NoRestore
  /\ NoWire
  /\ projects = TwoProjects
  /\ command_allowlist = {}
  /\ update_project = [c \in Callers |-> None]

SessionSpec == SessionInit /\ [][SessionNext]_vars

\* ------------------------------------------------------ commands on projects

\* add_project for a directory that is not a project yet; the new project
\* gets an id of its own.
AddProject(path) ==
  /\ "p3" \notin DOMAIN projects
  /\ ~InsertProjectFails(projects, "p3", NewProject(path))
  /\ projects' = Put(projects, "p3", NewProject(path))
  /\ UNCHANGED <<command_allowlist, update_project, projectFrame>>

\* update_project for an id that is not stored: ProjectNotFound.
UpdateProjectNotFound(c, pid) ==
  /\ update_project[c] = None
  /\ pid \notin DOMAIN projects
  /\ UNCHANGED vars

\* update_project up to delete_project: get_project, and the parameters that
\* are Some applied to what it returned.
UpdateProjectRead(c, pid, name, settings) ==
  /\ update_project[c] = None
  /\ pid \in DOMAIN projects
  /\ update_project' =
       [update_project EXCEPT ![c] =
          Some([id |-> pid, pc |-> "delete", project |-> projects[pid],
                updated |-> [projects[pid] EXCEPT
                               !.display_name = IF name # None THEN name ELSE @,
                               !.settings_json = IF settings # None THEN settings ELSE @]])]
  /\ UNCHANGED <<projects, command_allowlist, projectFrame>>

\* update_project: delete_project, with what the foreign keys delete with it.
UpdateProjectDelete(c) ==
  /\ update_project[c] # None
  /\ Get(update_project[c]).pc = "delete"
  /\ projects' = DeleteProject(projects, Get(update_project[c]).id)
  /\ session_metadata' = CascadeSessions(session_metadata, Get(update_project[c]).id)
  /\ command_allowlist' = CascadeAllowlist(command_allowlist, Get(update_project[c]).id)
  /\ update_project' = [update_project EXCEPT ![c] = Some([Get(@) EXCEPT !.pc = "insert"])]
  /\ UNCHANGED cascadeFrame

\* update_project: insert_project, whose error is the error of the command.
UpdateProjectInsert(c) ==
  /\ update_project[c] # None
  /\ Get(update_project[c]).pc = "insert"
  /\ projects' =
       IF InsertProjectFails(projects, Get(update_project[c]).id,
                             Get(update_project[c]).updated)
         THEN projects
         ELSE Put(projects, Get(update_project[c]).id, Get(update_project[c]).updated)
  /\ update_project' = [update_project EXCEPT ![c] = None]
  /\ UNCHANGED <<command_allowlist, projectFrame>>

ProjectNext ==
  \/ \E path \in ProjectPaths : AddProject(path)
  \/ \E c \in Callers, pid \in ProjectIds : UpdateProjectNotFound(c, pid)
  \/ \E c \in Callers, pid \in ProjectIds, name \in Option(DisplayNames),
        settings \in Option(ProjectSettingsJson) :
       UpdateProjectRead(c, pid, name, settings)
  \/ \E c \in Callers : UpdateProjectDelete(c)
  \/ \E c \in Callers : UpdateProjectInsert(c)

ProjectInit ==
  /\ NoRevert
  /\ NoRepo
  /\ NoSnapshots
  /\ NoSearch
  /\ AppServerIdle
  /\ session_metadata = TwoSessions
  /\ update_metadata = [c \in Callers |-> None]
  /\ restore = NoRestore
  /\ NoWire
  /\ projects = TwoProjects
  /\ command_allowlist = TwoAllowlists
  /\ update_project = [c \in Callers |-> None]

ProjectSpec == ProjectInit /\ [][ProjectNext]_vars

\* ------------------------------------------------------------ search_sessions

\* Two sessions, one in each project; what the user typed and what the
\* commands stored in them.
SearchIds == {<<"s", "1">>, <<"s", "2">>}
SearchTitles == {<<"T">>, <<"t", "s">>}
SearchMessages == {<<"s">>}
SearchTags == {<<"t">>}
Queries == {<<>>, <<"t">>, <<"s">>, <<"T", "s">>, <<"x">>}

SearchTables ==
  {Put(Put(EmptyMap, <<"s", "1">>, m1), <<"s", "2">>, m2) :
     m1 \in [project_id : {"p1"}, title : Option(SearchTitles),
             tags : SUBSET SearchTags, is_favorite : BOOLEAN,
             is_archived : BOOLEAN, last_accessed_at : {Some(1)},
             first_message : Option(SearchMessages)],
     m2 \in [project_id : {"p2"}, title : {None, Some(<<"T">>)},
             tags : {{}}, is_favorite : BOOLEAN, is_archived : {FALSE},
             last_accessed_at : {None, Some(1), Some(2)},
             first_message : {None}]}

\* search_sessions
SearchSessions(query, tags_filter, favorites_only) ==
  /\ \E r \in SearchResults(session_metadata, projects, query, tags_filter,
                            favorites_only) :
       search' = Some([query |-> query, tags_filter |-> tags_filter,
                       favorites_only |-> favorites_only, result |-> r])
  /\ UNCHANGED searchFrame

SearchNext ==
  \E query \in Queries, tags_filter \in Option(SUBSET SearchTags),
     favorites_only \in Option(BOOLEAN) :
    SearchSessions(query, tags_filter, favorites_only)

SearchInit ==
  /\ NoRevert
  /\ NoRepo
  /\ NoSnapshots
  /\ AppServerIdle
  /\ session_metadata \in SearchTables
  /\ update_metadata = [c \in Callers |-> None]
  /\ restore = NoRestore
  /\ NoWire
  /\ projects = TwoProjects
  /\ command_allowlist = {}
  /\ update_project = [c \in Callers |-> None]
  /\ NoSearch

SearchSpec == SearchInit /\ [][SearchNext]_vars

\* ------------------------------------------------------------------ snapshots

MaxSnapshots == 12   \* snapshots created
MaxClock == 1        \* seconds that pass
MaxGitSnapshots == 3 \* snapshots created in the git repository

\* The keep_count create_snapshot passes to cleanup_old_snapshots.
KeepCount == 10

SnapshotSessions == {"s1", "s2"}

\* The working tree is "clean" or holds one of these sets of uncommitted and
\* untracked changes; the changes touch the same files.
Changes == {"w1", "w2"}
Commits == {"c1", "c2"}

\* Snapshot::new_git_ghost and Snapshot::new_file_backup: the id stands for a
\* fresh uuid and orders the snapshots by their creation; commit_sha is the
\* "commit_sha" of the metadata of a git snapshot. captured is no column: it
\* records HEAD and the working tree at the time of the call.
NewSnapshot(n, sid, now, type, ref, g) ==
  [id |-> n, session_id |-> sid, created_at |-> now, snapshot_type |-> type,
   commit_sha |-> ref, captured |-> [head |-> g.head, worktree |-> g.worktree]]

\* git stash push -u -m codex-desktop-snapshot: with changes, they move from
\* the working tree to the top of the stash ("Saved working directory ..");
\* without, nothing happens.
GitStashPush(g) ==
  IF g.worktree = "clean" THEN g
  ELSE [g EXCEPT !.stash = <<g.worktree>> \o @, !.worktree = "clean"]

\* let ref_name = ..: "stash@{0}" when a stash was saved, else the sha of HEAD.
RefName(g) == IF g.worktree # "clean" THEN "stash@{0}" ELSE g.head

\* git stash pop: fails without a stash, and over local changes to the files
\* of the stash; else the top of the stash goes to the working tree.
GitStashPopFails(g) == g.stash = <<>> \/ g.worktree # "clean"

GitStashPop(g) == [g EXCEPT !.worktree = Head(g.stash), !.stash = Tail(@)]

\* git reset --hard <sha>
GitResetHard(g, sha) == [g EXCEPT !.head = sha, !.worktree = "clean"]

\* SELECT id FROM snapshots WHERE session_id = ?1
SnapshotsOf(table, sid) == {s \in table : s.session_id = sid}

\* What cleanup_old_snapshots may delete: the rows after the first
\* keep_count in ORDER BY created_at DESC, an order that is open between
\* rows of one created_at.
ToDelete(table, sid, keep_count) ==
  LET rows == SnapshotsOf(table, sid) IN
    IF Cardinality(rows) <= keep_count THEN {{}}
    ELSE {rows \ kept : kept \in
            {k \in SUBSET rows :
               /\ Cardinality(k) = keep_count
               /\ \A a \in k, b \in rows \ k : a.created_at >= b.created_at}}

\* create_snapshot: create_git_snapshot where the directory has .git, else
\* create_file_backup_snapshot; both end with insert_snapshot and
\* cleanup_old_snapshots(session_id, 10).
CreateSnapshot(sid) ==
  /\ LET snapshot ==
           IF git.repo
             THEN NewSnapshot(created.id + 1, sid, clock, "git_ghost", RefName(git), git)
             ELSE NewSnapshot(created.id + 1, sid, clock, "file_backup", "none", git) IN
       /\ \E to_delete \in ToDelete(snapshots \cup {snapshot}, sid, KeepCount) :
            snapshots' = (snapshots \cup {snapshot}) \ to_delete
       /\ created' = [id |-> snapshot.id, session_id |-> sid]
  /\ git' = IF git.repo THEN GitStashPush(git) ELSE git
  /\ UNCHANGED <<clock, reverted, snapshotFrame>>

\* revert_to_snapshot for an id that is not stored: SnapshotNotFound.
RevertNotFound(n) ==
  /\ \A s \in snapshots : s.id # n
  /\ reverted' = Some([id |-> n, ok |-> FALSE])
  /\ UNCHANGED <<snapshots, clock, created, git, snapshotFrame>>

\* revert_to_snapshot of a git snapshot: revert_git_snapshot.
RevertGitSnapshot(n) ==
  /\ \E s \in snapshots :
       /\ s.id = n
       /\ s.snapshot_type = "git_ghost"
       /\ IF s.commit_sha = "stash@{0}"
            THEN /\ git' = IF GitStashPopFails(git) THEN git ELSE GitStashPop(git)
                 /\ reverted' = Some([id |-> n, ok |-> ~GitStashPopFails(git)])
            ELSE /\ git' = GitResetHard(git, s.commit_sha)
                 /\ reverted' = Some([id |-> n, ok |-> TRUE])
  /\ UNCHANGED <<snapshots, clock, created, snapshotFrame>>

\* The user or the agent changes files of the project.
EditFiles(w) ==
  /\ git.repo
  /\ git.worktree # w
  /\ git' = [git EXCEPT !.worktree = w]
  /\ UNCHANGED <<snapshots, clock, created, reverted, snapshotFrame>>

\* git commit -a of the changes.
GitCommit ==
  /\ git.repo
  /\ git.worktree # "clean"
  /\ git.head = "c1"
  /\ git' = [git EXCEPT !.head = "c2", !.worktree = "clean"]
  /\ UNCHANGED <<snapshots, clock, created, reverted, snapshotFrame>>

\* A second passes.
Tick ==
  /\ clock < MaxClock
  /\ clock' = clock + 1
  /\ UNCHANGED <<snapshots, created, git, reverted, snapshotFrame>>

SnapshotNext ==
  \/ \E sid \in SnapshotSessions : created.id < MaxSnapshots /\ CreateSnapshot(sid)
  \/ Tick

SnapshotInit ==
  /\ NoRevert
  /\ NoRepo
  /\ AppServerIdle
  /\ NoSessions
  /\ restore = NoRestore
  /\ NoWire
  /\ projects = TwoProjects
  /\ command_allowlist = {}
  /\ update_project = [c \in Callers |-> None]
  /\ NoSearch
  /\ NoSnapshots

SnapshotSpec == SnapshotInit /\ [][SnapshotNext]_vars

\* The snapshots of one session of a project that is a git repository.
GitNext ==
  \/ created.id < MaxGitSnapshots /\ CreateSnapshot("s1")
  \/ \E n \in 1..MaxGitSnapshots : RevertNotFound(n)
  \/ \E n \in 1..MaxGitSnapshots : RevertGitSnapshot(n)
  \/ \E w \in Changes : EditFiles(w)
  \/ GitCommit

GitInit ==
  /\ NoRevert
  /\ AppServerIdle
  /\ NoSessions
  /\ restore = NoRestore
  /\ NoWire
  /\ projects = TwoProjects
  /\ command_allowlist = {}
  /\ update_project = [c \in Callers |-> None]
  /\ NoSearch
  /\ NoSnapshots
  /\ git = [repo |-> TRUE, head |-> "c1", worktree |-> "clean", stash |-> <<>>]
  /\ reverted = None

GitSpec == GitInit /\ [][GitNext]_vars

\* ------------------------------------------- revert_file_backup_snapshot

\* The entries of FileBackupMetadata.files a snapshot row can hold: a path
\* and whether its content is valid base64.
RevertPaths ==
  {<<"a">>, <<"a", "/", "a">>, <<"a", "a">>, <<".", ".", "/", "a">>}

RevertEntries ==
  {es \in SUBSET [relative_path : RevertPaths, decodes : BOOLEAN] :
     \A e1, e2 \in es : e1.relative_path = e2.relative_path => e1 = e2}

\* The entries of the project directory that can be symbolic links.
Links == UNION SymlinkSets

\* A write that looks at nothing.
WriteAnyway(path, symlinks) == FALSE

\* fs::symlink_metadata(validated_path) .. is_symlink(), right before the write.
SymlinkAtWrite(path, symlinks) == StripPrefix(path) \in symlinks

\* prepare_restore_path: validate_restore_path, and check_path_for_symlinks
\* again around create_dir_all.
prepare_restore_path(p, symlinks, windows) ==
  LET validated == validate_restore_path(p, symlinks, windows) IN
    IF ~validated.ok THEN validated
    ELSE CheckPathForSymlinks(validated.absolute_path, symlinks)

\* One turn of the loop over metadata.files, whose order is that of a
\* HashMap. appeared are the links made in the project between
\* prepare_restore_path and the look at the path before the write.
RevertEntry(e, appeared, write_ok) ==
  /\ revert.result = "running"
  /\ e \in revert.entries
  /\ LET validated == prepare_restore_path(e.relative_path, revert.symlinks,
                                           revert.windows)
         left == [revert EXCEPT !.entries = @ \ {e},
                                !.symlinks = @ \cup appeared] IN
       revert' =
         IF ~validated.ok
           THEN [left EXCEPT !.skipped = @ \cup {e.relative_path}]
         ELSE IF ~e.decodes
           THEN [left EXCEPT !.result = "err", !.failed = Some(e.relative_path)]
         ELSE IF SymlinkAtWrite(validated.absolute_path, left.symlinks)
           THEN [left EXCEPT !.skipped = @ \cup {e.relative_path}]
         ELSE IF ~write_ok
           THEN [left EXCEPT !.result = "err", !.failed = Some(e.relative_path)]
           ELSE [left EXCEPT !.written = @ \cup
                   {[relative_path |-> e.relative_path,
                     absolute_path |-> validated.absolute_path,
                     link |-> StripPrefix(validated.absolute_path) \in left.symlinks]}]
  /\ UNCHANGED revertFrame

\* The loop has ended: Ok(()).
RevertReturns ==
  /\ revert.result = "running"
  /\ revert.entries = {}
  /\ revert' = [revert EXCEPT !.result = "ok"]
  /\ UNCHANGED revertFrame

RevertNext ==
  \/ \E e \in [relative_path : RevertPaths, decodes : BOOLEAN],
        appeared \in {{}} \cup {{l} : l \in Links}, write_ok \in BOOLEAN :
       RevertEntry(e, appeared, write_ok)
  \/ RevertReturns

\* revert_to_snapshot has read a file_backup row and parsed its metadata.
RevertInit ==
  /\ AppServerIdle
  /\ NoSessions
  /\ restore = NoRestore
  /\ NoWire
  /\ NoProjects
  /\ NoSearch
  /\ NoSnapshots
  /\ NoRepo
  /\ \E es \in RevertEntries, symlinks \in SymlinkSets :
       revert = [files |-> es, entries |-> es, symlinks |-> symlinks, windows |-> FALSE,
                 written |-> {}, skipped |-> {}, result |-> "running",
                 failed |-> None]

RevertSpec == RevertInit /\ [][RevertNext]_vars

\* ------------------------------------------------- validate_restore_path

\* Any relative path of a snapshot, on either platform, with any of the
\* entries being symbolic links.
RestoreInit ==
  /\ NoRevert
  /\ NoRepo
  /\ NoSnapshots
  /\ NoSearch
  /\ AppServerReady
  /\ NoSessions
  /\ NoWire
  /\ NoProjects
  /\ \E p \in RelativePaths, symlinks \in SymlinkSets, windows \in BOOLEAN :
       restore = Restore(p, symlinks, windows, NotValidated)

\* prepare_restore_path: the relative path of a file of the snapshot is
\* validated before anything is written.
PrepareRestorePath ==
  /\ restore.result = NotValidated
  /\ restore' = [restore EXCEPT !.result =
                   validate_restore_path(restore.relative_path, restore.symlinks,
                                         restore.windows)]
  /\ UNCHANGED restoreFrame

RestoreNext == PrepareRestorePath

RestoreSpec == RestoreInit /\ [][RestoreNext]_vars

\* ------------------------------------------------------------ properties

InSendRequest(c) ==
  pc[c] \in {"sr_alloc", "sr_register", "sr_write", "sr_write_rest", "sr_await"}

\* The reader task finishes handle_message on the line it holds.
HandleStep == reader = "handling" /\ reader' = "running"

\* A byte of the request with CallId i is on the wire.
OnWire(i) ==
  \E k \in DOMAIN stdin : stdin[k].msg.id = Some(i) /\ stdin[k].msg.method # None

\* The Result r is what line m carries.
Carries(m, r) ==
  \/ r.kind = "rpc_error" /\ m.error = Some([code |-> r.code, message |-> r.message])
  \/ r.kind = "ok" /\ m.error = None /\ m.result = Some(r.val)
  \/ r.kind = "ok" /\ m.error = None /\ m.result = None /\ r.val = JsonNull

\* C1: whatever the order in which responses arrive, a value is delivered to a
\* caller only from a response line whose id is the caller's own CallId, and it
\* is the result or error that line carries.
C1_DeliveredByOwnId ==
  [][\A c \in Callers :
       (rx'[c] # rx[c] /\ rx'[c].st = "full") =>
         /\ HandleStep
         /\ IsResponse(Get(line))
         /\ Get(line).id = Some(id[c])
         /\ InSendRequest(c) /\ id'[c] = id[c]
         /\ Carries(Get(line), rx'[c].res)]_vars

\* A caller holds the response to its call while an older call's entry is
\* still in the registry: the responses came out of order.
C1_Witness ==
  \E c \in Callers :
    /\ rx[c].st = "full"
    /\ \E i \in DOMAIN pending_requests : i < id[c]

\* C2: while one call awaits its response, another caller's call is written
\* without waiting for it.
C2_SecondCallNotBlocked ==
  \A c1, c2 \in Callers :
    (/\ pc[c1] = "sr_await" /\ op[c1] = "call"
     /\ pc[c2] = "idle"
     /\ server = "Some" /\ LinesBegun < MaxLines /\ request_counter <= MaxId)
      => ENABLED BeginCall(c2)

\* C3: stdin is a concatenation of whole lines: the parts of a line follow each
\* other with no part of another message between them (only the last line may
\* lack its end, when the pipe broke within it).
C3_WholeLines ==
  \A k \in DOMAIN stdin :
    IF k % 2 = 1
      THEN stdin[k].part = 1
      ELSE stdin[k].part = 2 /\ stdin[k].msg = stdin[k - 1].msg

\* A line is half written while another caller is kept at the gate.
C3_Witness ==
  /\ Len(stdin) > 4
  /\ Len(stdin) % 2 = 1
  /\ \E c \in Callers : pc[c] = "idle" /\ ~GateFree(c)

\* The line that begins at position k of stdin is a request.
RequestBegins(k) == stdin[k].msg.method # None /\ stdin[k].msg.id # None

\* C4: the CallIds of one instance are 1, 2, 3, ... in the order of allocation,
\* the initialize call has id 1, and an id in the registry is never the next
\* one to be allocated.
C4_IdsIncrease ==
  /\ stdin # <<>> => stdin[1].msg = JsonRpcRequest(1, MInitialize)
  /\ \A k \in 1..LinesBegun : \A j \in 1..(k - 1) :
       (RequestBegins(2 * j - 1) /\ RequestBegins(2 * k - 1))
         => Get(stdin[2 * j - 1].msg.id) < Get(stdin[2 * k - 1].msg.id)
  /\ \A i \in DOMAIN pending_requests : 1 <= i /\ i < request_counter
  /\ \A c \in Callers :
       (InSendRequest(c) /\ pc[c] # "sr_alloc") =>
         /\ 1 <= id[c] /\ id[c] < request_counter
         /\ \A d \in Callers \ {c} : InSendRequest(d) => id[d] # id[c]

\* Every id of the instance has been allocated while an older entry is still
\* registered.
C4_Witness ==
  /\ request_counter = MaxId + 1
  /\ pending_requests # EmptyMap
  /\ \E c \in Callers : pc[c] = "sr_await" /\ id[c] = MaxId

\* The entry of call c is registered and its receiver waits.
Registered(c) ==
  /\ id[c] \in DOMAIN pending_requests
  /\ pending_requests[id[c]] = Sender(c, id[c])
  /\ rx[c].st = "empty"

\* C5: once a byte of a request is on the wire its PendingCall is registered
\* (until the response fulfils it), and a response that arrives while the
\* caller is in send_request is delivered to it.
C5_RegisteredBeforeWrite ==
  /\ [](\A c \in Callers :
          (InSendRequest(c) /\ id[c] # 0 /\ OnWire(id[c]) /\ rx[c].st # "full")
            => Registered(c))
  /\ [][\A c \in Callers :
          (/\ HandleStep /\ IsResponse(Get(line)) /\ Get(line).id = Some(id[c])
           /\ InSendRequest(c) /\ OnWire(id[c]) /\ rx[c].st # "full")
            => rx'[c].st = "full" /\ Carries(Get(line), rx'[c].res)]_vars

\* A response arrived while its request was still being written, and was
\* delivered.
C5_Witness ==
  \E c \in Callers : pc[c] = "sr_write_rest" /\ rx[c].st = "full"

\* C6: a call that timed out has no entry in the registry.
C6_TimedOutCallRemoved ==
  \A i \in timedOut : i \notin DOMAIN pending_requests

\* C7: when the write or flush of a request fails, the entry registered for it
\* is gone when send_request returns.
C7_FailedWriteRemoved ==
  [][\A c \in Callers :
       (pc[c] \in {"sr_write", "sr_write_rest"} /\ op[c] = "call" /\ WriteFails(c))
         => id[c] \notin DOMAIN pending_requests']_vars

\* C8: handle_message on a response whose call has timed out delivers nothing
\* to any caller, emits no event, and the reader task goes on reading.
C8_LateResponseDiscarded ==
  [][(HandleStep /\ IsResponse(Get(line)) /\ Get(Get(line).id) \in timedOut)
       => /\ rx' = rx
          /\ events' = events
          /\ pc' = pc
          /\ reader' = "running"]_vars

\* The response to a timed-out call has been handled and the reader task is
\* still running.
C8_Witness ==
  /\ reader = "running"
  /\ \E i \in timedOut : i \notin DOMAIN pending_requests

\* C9: a response whose id has no registry entry changes neither the registry
\* nor any receiver and emits no event; a fulfilled call's entry has left the
\* registry and its receiver is not written again.
C9_FulfilledAtMostOnce ==
  [][/\ (HandleStep /\ IsResponse(Get(line))
           /\ Get(Get(line).id) \notin DOMAIN pending_requests)
          => /\ pending_requests' = pending_requests
             /\ rx' = rx
             /\ events' = events
     /\ \A c \in Callers :
          /\ (rx[c].st = "full" /\ HandleStep) => rx'[c] = rx[c]
          /\ rx'[c].st = "full" => id'[c] \notin DOMAIN pending_requests']_vars

\* The duplicate of a response that was delivered and not yet taken arrives.
C9_Witness ==
  /\ reader = "handling"
  /\ IsResponse(Get(line))
  /\ Get(Get(line).id) \notin DOMAIN pending_requests
  /\ \E c \in Callers : rx[c].st = "full" /\ Get(line).id = Some(id[c])

\* C10: a matching response fulfils the caller with the error's code and
\* message exactly when the line has an error object, and otherwise with the
\* result, null when there is none.
C10_ErrorIffErrorObject ==
  [][\A c \in Callers :
       (HandleStep /\ rx'[c] # rx[c]) =>
         LET m == Get(line) IN
         /\ rx'[c].st = "full"
         /\ m.error # None =>
              rx'[c].res = [kind |-> "rpc_error", val |-> JsonNull,
                            code |-> Get(m.error).code,
                            message |-> Get(m.error).message]
         /\ (m.error = None /\ m.result # None) =>
              rx'[c].res = [kind |-> "ok", val |-> Get(m.result), code |-> 0, message |-> ""]
         /\ (m.error = None /\ m.result = None) =>
              rx'[c].res = [kind |-> "ok", val |-> JsonNull, code |-> 0, message |-> ""]]_vars

\* A caller was fulfilled with null: the response had neither result nor error.
C10_Witness ==
  \E c \in Callers :
    rx[c].st = "full" /\ rx[c].res.kind = "ok" /\ rx[c].res.val = JsonNull

\* The reader task takes the line it holds through handle_message.
Handles == reader = "handling" /\ reader' # reader

LastEvent(evs) == evs[Len(evs)]

\* C11: a line is routed by the presence of id and method alone. id without
\* method: the registry entry of that id, if any, is taken out and no event is
\* emitted. id with method: one event, registry and receivers untouched, also
\* when the id is a pending CallId. method without id: one event named by the
\* method with "/" replaced by "-", carrying no id, registry and receivers
\* untouched. Neither, or a line that does not decode: nothing changes.
C11_RoutedByIdAndMethod ==
  [][Handles =>
       LET m == Get(line)
           hasId == m.ok /\ m.id # None
           hasMethod == m.ok /\ m.method # None
       IN /\ (hasId /\ ~hasMethod) =>
               /\ events' = events
               /\ DOMAIN pending_requests' = DOMAIN pending_requests \ {Get(m.id)}
          /\ (hasId /\ hasMethod) =>
               /\ Len(events') = Len(events) + 1
               /\ pending_requests' = pending_requests /\ rx' = rx
          /\ (~hasId /\ hasMethod) =>
               /\ Len(events') = Len(events) + 1
               /\ LastEvent(events').name
                    = [k \in DOMAIN Get(m.method) |->
                         IF Get(m.method)[k] = "/" THEN "-" ELSE Get(m.method)[k]]
               /\ LastEvent(events').requestId = None
               /\ pending_requests' = pending_requests /\ rx' = rx
          /\ (~hasId /\ ~hasMethod) =>
               UNCHANGED <<events, pending_requests, rx>>]_vars

\* A server request whose id is the CallId of a registered call was turned
\* into an event and the call is still registered.
C11_Witness ==
  \E k \in DOMAIN events, c \in Callers :
    /\ events[k].requestId = Some(id[c])
    /\ op[c] = "call"
    /\ Registered(c)

\* A line that does not decode, or decodes to neither id nor method.
Malformed(m) == ~m.ok \/ (m.id = None /\ m.method = None)

\* C12: handling a malformed line leaves the reader task running, fulfils no
\* receiver, takes no entry out of the registry, emits nothing and returns no
\* caller.
C12_MalformedAbsorbed ==
  [][(Handles /\ Malformed(Get(line))) =>
       /\ reader' = "running"
       /\ UNCHANGED <<pending_requests, rx, events, pc>>]_vars

\* A line that does not decode is being handled while a call is waiting for
\* its response.
C12_Witness ==
  /\ reader = "handling"
  /\ ~Get(line).ok
  /\ \E c \in Callers : pc[c] = "sr_await" /\ Registered(c)

\* C13: for a server request, whatever its params, one event is emitted and
\* its payload carries the request's id together with the params.
C13_EventCarriesRequestId ==
  [][(Handles /\ Get(line).ok /\ Get(line).id # None /\ Get(line).method # None) =>
       LET m == Get(line) IN
       /\ Len(events') = Len(events) + 1
       /\ LastEvent(events').requestId = m.id
       /\ LastEvent(events').params
            = (IF m.params = None THEN JsonObject ELSE Get(m.params))]_vars

\* C14: every step of respond_to_approval leaves the counter, the registry and
\* the receivers as they are; what it writes is the two parts of one line of
\* response shape, with the given id and the result and no method, and it
\* returns when the line is complete.
C14_RespondWritesOneResponse ==
  [][\A c \in Callers :
       ((op[c] = "respond" \/ op'[c] = "respond") /\ pc'[c] # pc[c]) =>
         /\ UNCHANGED <<request_counter, pending_requests, rx>>
         /\ \/ stdin' = stdin
            \/ /\ Len(stdin') = Len(stdin) + 1
               /\ SubSeq(stdin', 1, Len(stdin)) = stdin
               /\ LET chunk == stdin'[Len(stdin')] IN
                  /\ chunk.msg.ok
                  /\ chunk.msg.id = Some(id[c])
                  /\ chunk.msg.method = None
                  /\ chunk.msg.result = Some(decision[c])
                  /\ chunk.msg.error = None
                  /\ chunk.part = (IF pc[c] = "sp_write" THEN 1 ELSE 2)
                  /\ chunk.part = 2 => pc'[c] = "idle"]_vars

\* A whole response line is on stdin whose id is also the CallId of a
\* registered call.
C14_Witness ==
  \E k \in DOMAIN stdin :
    /\ stdin[k].part = 2
    /\ stdin[k].msg.method = None
    /\ Get(stdin[k].msg.id) \in DOMAIN pending_requests

\* The values of ApprovalDecision a decision string can stand for.
ClosedDecision(v) ==
  \/ v.variant \in {"accept", "acceptForSession", "decline", "cancel"} /\ v.amendment = None
  \/ v.variant = "acceptWithExecpolicyAmendment" /\ v.amendment # None

\* C15: a respond_to_approval that got past its match, and every response
\* line on stdin, carries a decision of the closed set, the amendment with
\* acceptWithExecpolicyAmendment and with no other; any other input has
\* written nothing.
C15_OnlyClosedDecisions ==
  /\ \A c \in Callers :
       (op[c] = "respond" /\ pc[c] # "idle") => ClosedDecision(decision[c])
  /\ \A k \in DOMAIN stdin :
       (stdin[k].msg.method = None /\ stdin[k].msg.id # None)
         => ClosedDecision(Get(stdin[k].msg.result))

\* An acceptWithExecpolicyAmendment with its amendment was written.
C15_Witness ==
  \E k \in DOMAIN stdin :
    /\ stdin[k].part = 2
    /\ stdin[k].msg.method = None
    /\ stdin[k].msg.id # None
    /\ Get(stdin[k].msg.result).variant = "acceptWithExecpolicyAmendment"
    /\ Get(stdin[k].msg.result).amendment # None

\* The method of the line being handled, and the name of the event it yields.
HandledMethod == Get(Get(line).method)

Maps == Handles /\ Get(line).ok /\ Get(line).method # None

\* C16 as stated: the method handled is the only method name that yields the
\* event name emitted, so the method can be recovered from the event name.
C16_MethodRecoverable ==
  [][Maps => \A m \in MethodNames :
               EventName(m) = LastEvent(events').name => m = HandledMethod]_vars

Hyphenless(m) == \A k \in DOMAIN m : m[k] # "-"

\* The method name read back from an event name: every '-' becomes '/'.
MethodOf(name) == [k \in DOMAIN name |-> IF name[k] = "-" THEN "/" ELSE name[k]]

\* C16 amended: the event name emitted has no '/' and is the same in both
\* branches of handle_message; when the method handled has no '-', it is read
\* back from the event name and no other method without '-' yields that name.
C16_RecoverableWithoutHyphen ==
  [][Maps =>
       LET name == LastEvent(events').name IN
         /\ Len(events') = Len(events) + 1
         /\ \A k \in DOMAIN name : name[k] # "/"
         /\ \A l \in MethodLines :
              l.method = Get(line).method =>
                name = ServerRequestEvent(l).name /\ name = NotificationEvent(l).name
         /\ Hyphenless(HandledMethod) =>
              /\ MethodOf(name) = HandledMethod
              /\ \A m \in MethodNames :
                   (Hyphenless(m) /\ EventName(m) = name) => m = HandledMethod]_vars

\* The event of turn/completed was emitted under its mapped name.
C16_Witness ==
  /\ events # <<>>
  /\ LastEvent(events).name = <<"turn", "-", "completed">>
  /\ MethodOf(LastEvent(events).name) = MTurnDone

\* A start_app_server is between its spawn and its return.
SpawnInProgress == \E c \in Callers : op[c] = "start" /\ pc[c] # "idle"

HandshakeMessages == {JsonRpcRequest(1, MInitialize), JsonRpcNotification(MInitialized)}

\* C17: whenever no supervisor is stored (none started, a spawn in progress,
\* a failed handshake, after stop), a call or respond a caller issues fails
\* with the not-running error.
C17_FailsWhileNotReady ==
  \A c \in Callers :
    (pc[c] = "idle" /\ server = "None") => ENABLED NotRunning(c)

\* Caller c goes on to send the initialized notification.
SendsInitialized(c) == pc[c] # "sn_write" /\ pc'[c] = "sn_write"

\* C18: on every subprocess the first line on stdin is the initialize call and
\* the second, if any, is the initialized notification, which has no id and
\* occurs nowhere else; while the spawn is in progress nothing else is on
\* stdin; and a caller goes on to send the notification only from the await
\* of the initialize call, with its success response received.
C18_HandshakeOrder ==
  /\ [](/\ \A k \in DOMAIN stdin :
              (/\ k \in {1, 2} => stdin[k].msg = JsonRpcRequest(1, MInitialize)
               /\ k \in {3, 4} => /\ stdin[k].msg = JsonRpcNotification(MInitialized)
                                  /\ stdin[k].msg.id = None
               /\ k > 4 => stdin[k].msg \notin HandshakeMessages)
         /\ SpawnInProgress =>
              \A j \in DOMAIN stdin : stdin[j].msg \in HandshakeMessages
         /\ \A c \in Callers :
              pc[c] \in {"sn_write", "sn_write_rest"} =>
                /\ op[c] = "start"
                /\ Len(stdin) \in {2, 3}
                /\ 1 \notin DOMAIN pending_requests)
  /\ [][\A c \in Callers :
          SendsInitialized(c) =>
            /\ pc[c] = "sr_await" /\ op[c] = "start" /\ id[c] = 1
            /\ rx[c].st = "full" /\ rx[c].res.kind = "ok"
            /\ Len(stdin) = 2]_vars

\* A subprocess was sent the two handshake lines and then a call.
C18_Witness ==
  /\ Len(stdin) >= 5
  /\ stdin[1].msg = JsonRpcRequest(1, MInitialize)
  /\ stdin[3].msg = JsonRpcNotification(MInitialized)
  /\ stdin[5].msg.method = Some(MCall)

\* start_app_server of caller c returns the error of a failed handshake.
HandshakeFails(c) ==
  /\ op[c] = "start" /\ pc[c] # "idle"
  /\ pc'[c] = "idle"
  /\ server' # "Some"

ReaderStopped == reader \in {"none", "stopped"}

\* C19: a start_app_server that returns from a failed handshake leaves the
\* child terminated, nothing stored and the guard free, and has failed at the
\* initialize call or at the notification; with the child terminated the
\* reader task stops; and then a start launches a fresh subprocess: running,
\* nothing written to it, the counter at 1, the registry empty.
C19_FailedHandshakeCleansUp ==
  /\ [][\A c \in Callers :
          HandshakeFails(c) =>
            /\ \/ pc[c] = "sr_await" /\ (rx[c].st # "full" \/ rx[c].res.kind # "ok")
               \/ pc[c] \in {"sr_write", "sr_write_rest", "sn_write", "sn_write_rest"}
                    /\ child = "exited"
            /\ child' = "none"
            /\ server' = "None"
            /\ lock' = 0]_vars
  /\ [](child = "none" /\ reader = "running" => ENABLED ReaderShutdown)
  /\ (child = "none" ~> ReaderStopped)
  /\ [](server = "None" /\ lock = 0 /\ ReaderStopped =>
          \A c \in Callers : pc[c] = "idle" =>
            ENABLED (/\ Launch(c, [which |-> TRUE, home |-> TRUE, exists |-> {}])
                     /\ child' = "running" /\ reader' = "running"
                     /\ stdin' = <<>> /\ request_counter' = 1
                     /\ pending_requests' = EmptyMap))

\* A handshake failed after the initialize call was written: the child is
\* terminated, the reader task has stopped, nothing is stored.
C19_Witness ==
  /\ server = "None"
  /\ lock = 0
  /\ child = "none"
  /\ reader = "stopped"
  /\ Len(stdin) \in {2, 3}

\* C20: whenever find_codex_binary cannot resolve the executable, the start
\* fails with the binary-not-found error.
C20_UnresolvedIsBinaryNotFound ==
  \A c \in Callers, env \in Envs :
    (Enters(c) /\ server = "None" /\ ~FindCodexBinary(env).ok)
      => ENABLED BinaryNotFound(c, env)

\* The reader task emits an event from its select!, not from handle_message:
\* next_line() returned Ok(None).
EndOfStream == reader = "running" /\ events' # events

\* C21: at end of stream the reader task emits the disconnected event, once,
\* and ends; a reader task that has ended takes no line, handles none and
\* emits nothing, and a reader runs again only for a newly spawned subprocess.
C21_DisconnectedOnceThenStops ==
  /\ [][EndOfStream =>
          /\ events' = Append(events, Disconnected)
          /\ reader' = "stopped"]_vars
  /\ [][reader = "stopped" =>
          /\ events' = events
          /\ line' = line
          /\ reader' # "stopped" =>
               (reader' = "running" /\ child' = "running" /\ stdin' = <<>>)]_vars
  /\ [](reader = "stopped" =>
          /\ ~ENABLED ReaderHandle
          /\ ~ENABLED ReaderEof
          /\ ~ENABLED (\E l \in InboundLines : ReaderNextLine(l)))

\* The disconnected event was emitted and the reader task has ended.
C21_Witness ==
  /\ reader = "stopped"
  /\ events # <<>>
  /\ LastEvent(events) = Disconnected

\* C22: at end of stream every call that is pending (registered, its caller
\* at the await) is resolved with an error in that step.
C22_PendingResolvedOnDisconnect ==
  [][EndOfStream =>
       \A c \in Callers :
         (pc[c] = "sr_await" /\ Registered(c)) =>
           /\ rx'[c].st = "full"
           /\ rx'[c].res.kind \notin {"ok", "none"}
           /\ id[c] \notin DOMAIN pending_requests']_vars

InShutdown(c) == pc[c] \in {"sh_signal", "sh_close", "sh_wait", "sh_return"}

\* The select! of shutdown completes for caller c.
WaitEnds(c) == pc[c] = "sh_wait" /\ pc'[c] # "sh_wait"

\* C24: shutdown sends the signal to the reader task, then closes stdin, then
\* waits; the wait ends with the child killed exactly when the child was
\* still running, and otherwise leaves the child as it exited; and the child
\* is not running when shutdown returns.
C24_ShutdownOrderAndKill ==
  /\ [][\A c \in Callers :
          /\ (pc'[c] = "sh_signal" /\ pc[c] # "sh_signal") => pc[c] = "idle"
          /\ (pc'[c] = "sh_close" /\ pc[c] # "sh_close") => pc[c] = "sh_signal"
          /\ (pc'[c] = "sh_wait" /\ pc[c] # "sh_wait") =>
               (pc[c] = "sh_close" /\ ShutdownSignalled)
          /\ WaitEnds(c) =>
               /\ pc'[c] = "sh_return"
               /\ child = "running" <=> child' = "killed"
               /\ child # "running" => child' = child]_vars
  /\ [][(child' = "killed" /\ child # "killed") =>
          \E c \in Callers : WaitEnds(c)]_vars
  /\ [](\A c \in Callers :
          /\ pc[c] \in {"sh_close", "sh_wait"} /\ reader = "running"
               => ENABLED ReaderShutdown
          /\ pc[c] = "sh_return" => child \in {"exited", "killed"})
  /\ [][\A c \in Callers :
          (pc[c] = "sh_return" /\ pc'[c] = "idle") => child' # "running"]_vars

\* The grace period ended with the child still running and it was killed.
C24_Witness == \E c \in Callers : pc[c] = "sh_return" /\ child = "killed"

\* C25: once a stop has shut the supervisor down nothing is stored, and a
\* further stop finds nothing to shut down: it cannot begin a shutdown (no
\* signal, no kill), and it returns with every variable unchanged.
C25_SecondStopChangesNothing ==
  /\ (lock = 0 /\ child = "none") => server = "None"
  /\ server = "None" =>
       \A c \in Callers :
         Enters(c) => /\ ~ENABLED StopBegin(c)
                      /\ ENABLED (StopNothing(c) /\ UNCHANGED vars)

\* A supervisor that had completed its handshake was stopped, and a caller
\* can stop again.
C25_Witness ==
  /\ server = "None"
  /\ child = "none"
  /\ Len(stdin) >= 4
  /\ \E c \in Callers : ENABLED StopNothing(c)

\* C26: the value shutdown returns after it killed the child differs from
\* the value it returns when the child exited by itself.
C26_ResultTellsHowEnded ==
  \A c \in Callers :
    (pc[c] = "sh_return" /\ child = "killed")
      => ShutdownResult(child) # ShutdownResult("exited")

\* shutdown has sent its signal to the reader task.
ShutdownSent == \E c \in Callers : pc[c] \in {"sh_close", "sh_wait", "sh_return"}

\* C27: once shutdown has sent the signal the reader task eventually ends;
\* while it still runs the shutdown branch of its select! is ready whatever
\* the subprocess does; and once ended it stays ended for the rest of the
\* shutdown, takes no line and emits nothing.
C27_SignalStopsReader ==
  /\ ShutdownSent ~> ReaderStopped
  /\ [](ShutdownSent /\ reader = "running" => ENABLED ReaderShutdown)
  /\ [][(ShutdownSent /\ reader = "stopped") =>
          /\ reader' = "stopped"
          /\ line' = line
          /\ events' = events]_vars

\* The reader task ended on the signal: the subprocess is still running and
\* has not closed its output.
C27_Witness ==
  /\ \E c \in Callers : pc[c] = "sh_wait"
  /\ reader = "stopped"
  /\ child = "running"
  /\ events = <<>>

\* Caller c is inside send_notification.
InSendNotification(c) == pc[c] \in {"sn_write", "sn_write_rest"}

\* C28: send_notification holds no receiver; each of its steps leaves the
\* counter and the registry unchanged and either appends one part of a line
\* that has a method and params and no id, returning once the second part is
\* written, or returns with nothing written because the write failed on a
\* child that has gone.
C28_NotifyWritesOneLine ==
  /\ [](\A c \in Callers : InSendNotification(c) => rx[c] = NoReceiver)
  /\ [][\A c \in Callers :
          (InSendNotification(c) /\ pc'[c] # pc[c]) =>
            /\ request_counter' = request_counter
            /\ pending_requests' = pending_requests
            /\ rx' = rx
            /\ \/ /\ Len(stdin') = Len(stdin) + 1
                  /\ SubSeq(stdin', 1, Len(stdin)) = stdin
                  /\ LET w == stdin'[Len(stdin')] IN
                       /\ w.msg.ok
                       /\ w.msg.method # None
                       /\ w.msg.params # None
                       /\ w.msg.id = None
                       /\ w.msg.result = None /\ w.msg.error = None
                       /\ w.part = IF pc[c] = "sn_write" THEN 1 ELSE 2
                       /\ IF w.part = 1 THEN pc'[c] = "sn_write_rest"
                                        ELSE pc'[c] = "idle"
               \/ /\ stdin' = stdin
                  /\ child = "exited"
                  /\ pc'[c] = "idle"]_vars

\* A notification was written whole and no CallId was allocated for it: only
\* the initialize call has taken one.
C28_Witness ==
  /\ Len(stdin) >= 4
  /\ stdin[4].part = 2
  /\ stdin[4].msg.id = None
  /\ stdin[4].msg.method = Some(MInitialized)
  /\ request_counter = 2
  /\ pending_requests = EmptyMap


\* C29: validate_restore_path rejects a relative path that is empty, holds a
\* NUL byte, starts with '/' or '\', has ':' as its second character, or has
\* a ".." component when split on '/' and '\'; and a path it accepts resolves
\* to the accepted absolute path, which lies inside the project directory and
\* is reached without passing through a symbolic link.
HasParentComponent(p) ==
  \E i, j \in DOMAIN p :
    /\ j = i + 1 /\ p[i] = "." /\ p[j] = "."
    /\ (i = 1 \/ p[i - 1] \in {"/", "\\"})
    /\ (j = Len(p) \/ p[j + 1] \in {"/", "\\"})

MustReject(p) ==
  \/ p = <<>>
  \/ \E k \in DOMAIN p : p[k] = "NUL"
  \/ p[1] \in {"/", "\\"}
  \/ (Len(p) >= 2 /\ p[2] = ":")
  \/ HasParentComponent(p)

RECURSIVE Walk(_, _, _, _)
\* Where the operating system arrives when it follows the names of a path
\* from directory at, and whether it went through a symbolic link.
Walk(names, at, symlinks, linked) ==
  IF names = <<>> THEN [at |-> at, linked |-> linked]
  ELSE IF Head(names) \in {<<>>, CurDir}
    THEN Walk(Tail(names), at, symlinks, linked)
  ELSE IF Head(names) = ParentDir
    THEN Walk(Tail(names),
              IF Len(at) > 1 THEN SubSeq(at, 1, Len(at) - 1) ELSE at,
              symlinks, linked)
    ELSE Walk(Tail(names), Append(at, Head(names)), symlinks,
              \/ linked
              \/ /\ StartsWith(Append(at, Head(names)), ProjectPath)
                 /\ StripPrefix(Append(at, Head(names))) \in symlinks)

Resolved(r) ==
  Walk(Split(r.relative_path, Separators(r.windows)), ProjectPath, r.symlinks, FALSE)

C29_RestorePathStaysInside ==
  restore.result # NotValidated =>
    /\ MustReject(restore.relative_path) => ~restore.result.ok
    /\ restore.result.ok =>
         /\ restore.result.absolute_path = Resolved(restore).at
         /\ StartsWith(restore.result.absolute_path, ProjectPath)
         /\ ~Resolved(restore).linked

\* A nested path is accepted although another entry of the project is a
\* symbolic link.
C29_Witness ==
  /\ restore.result.ok
  /\ Len(restore.result.absolute_path) = Len(ProjectPath) + 2
  /\ restore.symlinks # {}

\* C30: once a session has a first_message, no command gives the session
\* another one while its row exists: not the upsert of start_thread, not
\* set_session_first_message, not update_session_metadata.
KeepsFirstMessage ==
  \A sid \in DOMAIN session_metadata \cap DOMAIN session_metadata' :
    session_metadata[sid].first_message # None =>
      session_metadata'[sid].first_message = session_metadata[sid].first_message

C30_FirstMessageWrittenOnce == [][KeepsFirstMessage]_vars

\* An update_session_metadata is about to upsert a first_message for a session
\* that has got another one since the update read the row.
C30_Witness ==
  \E c \in Callers :
    /\ update_metadata[c] # None
    /\ Get(update_metadata[c]).session_id \in DOMAIN session_metadata
    /\ Get(update_metadata[c]).metadata.first_message # None
    /\ session_metadata[Get(update_metadata[c]).session_id].first_message # None
    /\ session_metadata[Get(update_metadata[c]).session_id].first_message
         # Get(update_metadata[c]).metadata.first_message

\* C34: under every interleaving of start, stop and restart commands the state
\* holds at most one supervisor and at most one subprocess of it runs: a
\* supervisor under construction or in shutdown is not stored and its command
\* holds the lock; with nothing stored and nothing in progress no subprocess
\* runs; a spawn can begin only with nothing stored and no subprocess
\* running; and a start that finds a supervisor stored returns without
\* spawning, whether the stored subprocess is alive or not.
C34_OneSupervisorOneChild ==
  /\ \A c \in Callers :
       ((op[c] = "start" /\ pc[c] # "idle") \/ InShutdown(c)) =>
         (server = "None" /\ lock = c)
  /\ (server = "None" /\ lock = 0) => child # "running"
  /\ \A c \in Callers :
       Enters(c) =>
         /\ ENABLED (\E env \in Envs : Launch(c, env)) =>
              (server = "None" /\ child # "running")
         /\ server = "Some" =>
              ENABLED (StartAlreadyStored(c)
                         /\ UNCHANGED <<server, procVars, readerVars, events>>)

\* A supervisor is stored whose subprocess has exited, and a start can be
\* issued.
C34_Witness ==
  /\ server = "Some"
  /\ child = "exited"
  /\ \E c \in Callers : Enters(c)

\* C35: inbound lines are dispatched in the order they arrive: the events are
\* those of the notifications and server requests on the wire, in wire order,
\* and a line is read only when the one before it has been handled, the
\* fulfilling of a pending call included.
RECURSIVE EventsOf(_)
EventsOf(lines) ==
  IF lines = <<>> THEN <<>>
  ELSE LET l == Head(lines) IN
    (IF IsServerRequest(l) THEN <<ServerRequestEvent(l)>>
     ELSE IF IsNotification(l) THEN <<NotificationEvent(l)>>
     ELSE <<>>) \o EventsOf(Tail(lines))

\* The lines whose handling is complete.
Handled == IF reader = "handling" THEN SubSeq(wire, 1, Len(wire) - 1) ELSE wire

\* A pending call is fulfilled in this step.
Fulfils == \E c \in Callers : rx[c].st # "full" /\ rx'[c].st = "full"

InWireOrder ==
  /\ events = EventsOf(Handled)
  /\ reader = "handling" <=> line # None
  /\ reader = "handling" => line = Some(wire[Len(wire)])

OneLineAtATime ==
  /\ wire' # wire => (reader = "running" /\ line = None /\ events = EventsOf(wire))
  /\ Fulfils => (reader = "handling" /\ IsResponse(Get(line)) /\ reader' = "running")

C35_DispatchedInWireOrder == []InWireOrder /\ [][OneLineAtATime]_vars

\* Two events were emitted for two lines, with a fulfilled call between them.
C35_Witness ==
  /\ Len(events) >= 2
  /\ events[1] # events[2]
  /\ Len(wire) = 3
  /\ IsResponse(wire[2])
  /\ \E c \in Callers : rx[c].st = "full"

\* C36: the event named app-server-disconnected is emitted only at the end of
\* the stream: a step that emits an event with that name is taken by the
\* reader task waiting for a line, with the output of the subprocess closed,
\* and never while a line is being handled.
EmitsDisconnected ==
  /\ Len(events') = Len(events) + 1
  /\ events'[Len(events')].name = Disconnected.name

C36_DisconnectedOnlyAtEof ==
  [][EmitsDisconnected => (reader = "running" /\ child # "running")]_vars

\* C38: update_session_metadata on a session that has a metadata record,
\* archived or not, changes only the fields passed to it and last_accessed_at:
\* when its upsert is done on the row as it was stored before the call, every
\* field that was not supplied has the value it had.
UpdateReturns(c) == update_metadata[c] # None /\ update_metadata'[c] = None

C38_UnsuppliedFieldsKept ==
  [][\A c \in Callers :
       (/\ UpdateReturns(c)
        /\ Get(update_metadata[c]).session_id \in DOMAIN session_metadata
        /\ Get(update_metadata[c]).before =
             Some(session_metadata[Get(update_metadata[c]).session_id]))
       => LET u == Get(update_metadata[c])
              old == session_metadata[u.session_id]
              new == session_metadata'[u.session_id]
          IN /\ new.project_id = old.project_id
             /\ u.title = None => new.title = old.title
             /\ u.is_archived = None => new.is_archived = old.is_archived
             /\ u.first_message = None => new.first_message = old.first_message]_vars

\* C37: update_project changes only the display name and the settings of the
\* project: no step of it changes a session metadata record or an allowlist
\* entry, and when it returns, with or without an error, the project is stored
\* under its id with the path and the timestamps it had.
UpdateProjectSteps(c) == update_project'[c] # update_project[c]

UpdateProjectReturns(c) == update_project[c] # None /\ update_project'[c] = None

C37_UpdateKeepsTheRest ==
  [][\A c \in Callers :
       /\ UpdateProjectSteps(c) =>
            /\ session_metadata' = session_metadata
            /\ command_allowlist' = command_allowlist
       /\ UpdateProjectReturns(c) =>
            LET u == Get(update_project[c]) IN
              /\ u.id \in DOMAIN projects'
              /\ projects'[u.id].path = u.project.path
              /\ projects'[u.id].created_at = u.project.created_at
              /\ projects'[u.id].last_opened_at = u.project.last_opened_at]_vars

\* C33: search_sessions returns exactly the sessions that are not archived,
\* pass the tag filter and the favourites filter, and in which the query is
\* part of the title, the first message, a tag or the session id; the list is
\* ordered by relevance score descending and, for equal scores, by
\* last_accessed_at descending.
QueryMatches(sid, m, q) ==
  \/ m.title # None /\ ContainsStr(ToLowercase(Get(m.title)), q)
  \/ m.first_message # None /\ ContainsStr(ToLowercase(Get(m.first_message)), q)
  \/ \E t \in m.tags : ContainsStr(ToLowercase(t), q)
  \/ ContainsStr(ToLowercase(sid), q)

Expected(s) ==
  {sid \in DOMAIN session_metadata :
     /\ ~session_metadata[sid].is_archived
     /\ s.tags_filter # None => Get(s.tags_filter) \subseteq session_metadata[sid].tags
     /\ s.favorites_only = Some(TRUE) => session_metadata[sid].is_favorite
     /\ QueryMatches(sid, session_metadata[sid], ToLowercase(s.query))}

C33_SearchReturnsTheMatches ==
  search # None =>
    LET s == Get(search) IN
      /\ {s.result[i] : i \in DOMAIN s.result} = Expected(s)
      /\ \A i, j \in DOMAIN s.result : i # j => s.result[i] # s.result[j]
      /\ \A i, j \in DOMAIN s.result :
           i < j => SearchOrder(session_metadata, ToLowercase(s.query),
                                s.result[i], s.result[j])

\* C31: after every create_snapshot for a session, the session has at most 10
\* stored snapshots, they are the most recently created ones, the snapshot
\* just created is among them, and no snapshot of another session is deleted.
CreateSnapshotReturns == created'.id # created.id

C31_KeepsTheMostRecent ==
  [][CreateSnapshotReturns =>
       LET sid == created'.session_id
           after == SnapshotsOf(snapshots', sid)
           deleted == snapshots \ snapshots' IN
         /\ Cardinality(after) <= KeepCount
         /\ \E s \in after : s.id = created'.id
         /\ \A a \in after, d \in deleted : a.id > d.id
         /\ \A d \in deleted : d.session_id = sid]_vars

\* C39: create_snapshot leaves the project as it was: after it returned, HEAD
\* and the working tree, uncommitted and untracked changes included, are what
\* they were before the call.
C39_SnapshotLeavesTheTree ==
  [][CreateSnapshotReturns =>
       /\ git'.head = git.head
       /\ git'.worktree = git.worktree]_vars

\* C40: a revert to a git snapshot that succeeds leaves HEAD and the working
\* tree as they were when the snapshot was created, whatever snapshots were
\* created or reverted in between.
RevertReturnsOk(s) ==
  /\ reverted' # reverted
  /\ reverted' = Some([id |-> s.id, ok |-> TRUE])

C40_RevertRestoresTheSnapshot ==
  [][\A s \in snapshots :
       s.snapshot_type = "git_ghost" /\ RevertReturnsOk(s) =>
         /\ git'.head = s.captured.head
         /\ git'.worktree = s.captured.worktree]_vars

\* C32 as written: a revert of a file backup writes only to validated paths
\* inside the project, skips what fails validation or is a symbolic link at
\* write time without writing it, restores every other entry and reports
\* success.
RevertPath(p) ==
  Resolved([relative_path |-> p, symlinks |-> revert.symlinks,
            windows |-> revert.windows])

WritesOnlyValidated ==
  \A w \in revert.written :
    /\ ~MustReject(w.relative_path)
    /\ w.absolute_path = RevertPath(w.relative_path).at
    /\ StartsWith(w.absolute_path, ProjectPath)
    /\ ~w.link
    /\ w.relative_path \notin revert.skipped

SkipsOnlyUnsafe ==
  \A p \in revert.skipped :
    \/ MustReject(p)
    \/ ~StartsWith(RevertPath(p).at, ProjectPath)
    \/ RevertPath(p).linked

RestoresTheRest ==
  \A e \in revert.files :
    \/ e.relative_path \in revert.skipped
    \/ \E w \in revert.written : w.relative_path = e.relative_path

====
